---- MODULE Spec2Model ----
(***************************************************************************)
(* A model of the google-business-tracker back end.                        *)
(*                                                                         *)
(*   SpecLock  the Run Gate (src/utils/lock.ts) at the granularity of its  *)
(*             file-system calls, with callers in two operating-system     *)
(*             processes (the HTTP server and the CLI).                    *)
(*   Spec      the check orchestrator (BusinessService) behind the HTTP    *)
(*             routes of one server process: onboarding, checking,         *)
(*             deleting, the record store and the external ledgers.        *)
(*   SpecUrl, SpecLedger, SpecExtract, SpecChanges, SpecBatch              *)
(*             the functions of url.ts, google-sheets.ts, playwright.ts,   *)
(*             change-detection.ts and the check-all loop, each applied    *)
(*             step by step to arguments drawn from bounded sets.          *)
(*   SpecSession                                                           *)
(*             the SessionService of session.ts: openLoginPage and         *)
(*             checkLoggedIn at the granularity of their awaits, with the  *)
(*             human at the visible window as the environment.             *)
(***************************************************************************)
EXTENDS Integers, Sequences, FiniteSets, TLC

VARIABLES
    lockFile,   \* content of data/run.lock: NoLock or a LockInfo record
    now,        \* Date.now(), in milliseconds since the model's epoch
    alive,      \* the operating-system process ids that exist
    pc,         \* SpecLock: where each caller of withLock stands
    err,        \* SpecLock: the message withLock threw to each caller ("" = none)
    businesses, \* the businesses table: id -> row
    lastID,     \* sqlite_sequence of businesses (AUTOINCREMENT never reuses an id)
    sheets,     \* the spreadsheets created in Drive, in creation order (id = index)
    call,       \* Spec: the workflow in flight (NoCall when none)
    callNo,     \* Spec: how many workflows were started
    gated,      \* Spec: the non-forced checks that appended and recorded (history)
    probe       \* the function-level specifications: the arguments and results so far

lockVars == <<lockFile, alive, pc, err>>

checkVars == <<businesses, lastID, sheets, call, callNo, gated>>

vars == <<lockVars, checkVars, now, probe>>

(***************************************************************************)
(* Bounds and program constants                                            *)
(***************************************************************************)
\* how many times the clock may advance
MaxTicks == 3

\* lock.ts:6  STALE_THRESHOLD_MS = 60 * 60 * 1000
STALE_THRESHOLD_MS == 3600000

\* one clock step of SpecLock: half an hour, so that a record gets older than
\* STALE_THRESHOLD_MS after three steps
LockTickMs == STALE_THRESHOLD_MS \div 2

\* how many times the clock of Spec may advance (a day each time)
MaxDayTicks == 1

\* how many workflows (onboardings, checks) Spec starts
MaxCalls == 3

\* how many businesses are ever inserted
MaxBusinesses == 2

MsPerDay == 24 * 60 * 60 * 1000

DayTickMs == MsPerDay

\* null of a string-valued and of a number-valued field
Null == "null"

NoNumber == -1

NoLock == [pid |-> 0]

(***************************************************************************)
(* The callers of withLock                                                 *)
(***************************************************************************)
ServerPid == 1
CliPid == 2
Pids == {ServerPid, CliPid}

\* two requests handled by the one server process, and the CLI process
Callers == {"postCheck", "postCreate", "cli"}

\* process.pid of the process a caller runs in
PidOf(c) == IF c = "cli" THEN CliPid ELSE ServerPid

\* the overrideStale argument of each call site: the routes pass none (default
\* false), runDailyCheck passes true
OverrideStale(c) == c = "cli"

\* process.argv.join(' ')
CommandOf(p) == IF p = CliPid THEN "node cli.js run-daily-check" ELSE "node index.js"

\* the record acquireLock writes
LockInfo(c, t) ==
    [pid |-> PidOf(c), startedAt |-> t, command |-> CommandOf(PidOf(c)), writer |-> c]

(***************************************************************************)
(* acquireLock's decision on the record it has read                        *)
(***************************************************************************)
\* process.kill(pid, 0) succeeds
ProcessExists(p) == p \in alive

\* age > STALE_THRESHOLD_MS
IsStale(info, t) == t - info.startedAt > STALE_THRESHOLD_MS

\* what acquireLock does after JSON.parse of an existing record:
\* "null" (return null), or the unlinkSync it goes to
AcquireDecision(info, override, t) ==
    IF ProcessExists(info.pid)
    THEN IF IsStale(info, t)
         THEN IF override THEN "unlink36" ELSE "null"
         ELSE "null"
    ELSE "unlink45"

\* where withLock goes when fn() settles: .finally runs releaseLock on both paths
AfterWorkThenOnly(ok) == IF ok THEN "rel_exists" ELSE "done"

AfterWork(ok) == "rel_exists"

\* releaseLock's test "lockInfo.pid === process.pid"
OwnsLock(info, c) == info.pid = PidOf(c)

(***************************************************************************)
(* SpecLock: the steps of withLock                                         *)
(***************************************************************************)
\* acquireLock and releaseLock are synchronous: within one process no other
\* caller runs between their file-system calls
SyncStates ==
    {"exists", "read", "unlink36", "unlink45", "unlink49", "write",
     "rel_exists", "rel_read", "rel_unlink"}

SyncFree(c) ==
    \A d \in Callers \ {c} : PidOf(d) = PidOf(c) => pc[d] \notin SyncStates

CanStep(c, at) == pc[c] = at /\ PidOf(c) \in alive /\ SyncFree(c)

Goto(c, to) == pc' = [pc EXCEPT ![c] = to]

NoCall == [op |-> "none"]

NoProbe == [stage |-> "none"]

Init ==
    /\ lockFile = NoLock
    /\ now = 0
    /\ alive = Pids
    /\ pc = [c \in Callers |-> "idle"]
    /\ err = [c \in Callers |-> ""]
    /\ businesses = <<>>
    /\ lastID = 0
    /\ sheets = <<>>
    /\ call = NoCall
    /\ callNo = 0
    /\ gated = {}
    /\ probe = NoProbe

\* a caller invokes withLock(fn, overrideStale)
CallWithLock(c) ==
    /\ CanStep(c, "idle")
    /\ Goto(c, "exists")
    /\ err' = [err EXCEPT ![c] = ""]
    /\ UNCHANGED <<lockFile, alive, now, checkVars, probe>>

\* lock.ts:20  fs.existsSync(LOCK_FILE)
AcquireExists(c) ==
    /\ CanStep(c, "exists")
    /\ Goto(c, IF lockFile = NoLock THEN "write" ELSE "read")
    /\ UNCHANGED <<lockFile, alive, err, now, checkVars, probe>>

\* lock.ts:22-46  readFileSync, JSON.parse, process.kill, the age test
AcquireRead(c) ==
    /\ CanStep(c, "read")
    /\ IF lockFile = NoLock
       THEN \* readFileSync throws: the outer catch unlinks
            /\ Goto(c, "unlink49")
            /\ UNCHANGED err
       ELSE LET d == AcquireDecision(lockFile, OverrideStale(c), now) IN
            IF d = "null"
            THEN \* lock.ts:85-87
                 /\ Goto(c, "failed")
                 /\ err' = [err EXCEPT ![c] = "RUN_IN_PROGRESS"]
            ELSE /\ Goto(c, d)
                 /\ UNCHANGED err
    /\ UNCHANGED <<lockFile, alive, now, checkVars, probe>>

\* the unlinkSync of line 36, 45 or 49; a failing one is caught by the next
\* enclosing catch, whose handler unlinks again; the last one propagates
AcquireUnlink(c) ==
    /\ pc[c] \in {"unlink36", "unlink45", "unlink49"}
    /\ CanStep(c, pc[c])
    /\ IF lockFile # NoLock
       THEN /\ lockFile' = NoLock
            /\ Goto(c, "write")
            /\ UNCHANGED err
       ELSE /\ UNCHANGED lockFile
            /\ IF pc[c] = "unlink36" THEN Goto(c, "unlink45") /\ UNCHANGED err
               ELSE IF pc[c] = "unlink45" THEN Goto(c, "unlink49") /\ UNCHANGED err
               ELSE /\ Goto(c, "failed")
                    /\ err' = [err EXCEPT ![c] = "ENOENT: no such file or directory, unlink"]
    /\ UNCHANGED <<alive, now, checkVars, probe>>

\* lock.ts:54-61  writeFileSync of the new record; withLock then calls fn()
AcquireWrite(c) ==
    /\ CanStep(c, "write")
    /\ lockFile' = LockInfo(c, now)
    /\ Goto(c, "work")
    /\ UNCHANGED <<alive, err, now, checkVars, probe>>

\* fn() settles, fulfilled or rejected
FinishWork(c) ==
    /\ CanStep(c, "work")
    /\ \E ok \in BOOLEAN :
        /\ Goto(c, AfterWork(ok))
        /\ err' = [err EXCEPT ![c] = IF ok THEN "" ELSE "work failed"]
    /\ UNCHANGED <<lockFile, alive, now, checkVars, probe>>

\* lock.ts:65  fs.existsSync(LOCK_FILE)
ReleaseExists(c) ==
    /\ CanStep(c, "rel_exists")
    /\ Goto(c, IF lockFile = NoLock THEN "done" ELSE "rel_read")
    /\ UNCHANGED <<lockFile, alive, err, now, checkVars, probe>>

\* lock.ts:67-71  readFileSync, JSON.parse, the owner test
ReleaseRead(c) ==
    /\ CanStep(c, "rel_read")
    /\ Goto(c, IF lockFile # NoLock /\ OwnsLock(lockFile, c) THEN "rel_unlink" ELSE "done")
    /\ UNCHANGED <<lockFile, alive, err, now, checkVars, probe>>

\* lock.ts:72  unlinkSync; a failure is swallowed by the catch of line 74
ReleaseUnlink(c) ==
    /\ CanStep(c, "rel_unlink")
    /\ lockFile' = NoLock
    /\ Goto(c, "done")
    /\ UNCHANGED <<alive, err, now, checkVars, probe>>

\* the caller has seen withLock's result and may call again
Return(c) ==
    /\ pc[c] \in {"done", "failed"}
    /\ PidOf(c) \in alive
    /\ Goto(c, "idle")
    /\ UNCHANGED <<lockFile, alive, err, now, checkVars, probe>>

\* a process dies (kill -9, power loss): its callers stop where they are
Crash(p) ==
    /\ p \in alive
    /\ alive' = alive \ {p}
    /\ pc' = [c \in Callers |-> IF PidOf(c) = p THEN "crashed" ELSE pc[c]]
    /\ UNCHANGED <<lockFile, err, now, checkVars, probe>>

\* time passes
LockTick ==
    /\ now < MaxTicks * LockTickMs
    /\ now' = now + LockTickMs
    /\ UNCHANGED <<lockVars, checkVars, probe>>

LockNext ==
    \/ \E c \in Callers : CallWithLock(c)
    \/ \E c \in Callers : AcquireExists(c)
    \/ \E c \in Callers : AcquireRead(c)
    \/ \E c \in Callers : AcquireUnlink(c)
    \/ \E c \in Callers : AcquireWrite(c)
    \/ \E c \in Callers : FinishWork(c)
    \/ \E c \in Callers : ReleaseExists(c)
    \/ \E c \in Callers : ReleaseRead(c)
    \/ \E c \in Callers : ReleaseUnlink(c)
    \/ \E c \in Callers : Return(c)
    \/ \E p \in Pids : Crash(p)
    \/ LockTick

SpecLock == Init /\ [][LockNext]_vars

(***************************************************************************)
(* Properties of the Run Gate                                              *)
(***************************************************************************)
\* the callers that are executing their work
Working == {c \in Callers : pc[c] = "work" /\ PidOf(c) \in alive}

\* no caller is inside withLock
Quiescent == \A c \in Callers : pc[c] \in {"idle", "done", "failed", "crashed"}

\* C1: while no lock record can be older than one hour, at most one caller of
\* withLock is executing its work at any instant.
C1_MutualExclusion == now <= STALE_THRESHOLD_MS => Cardinality(Working) <= 1

\* C2: withLock releases on every exit path of work. Once a caller's withLock has
\* settled, whether its work returned or failed, the record that caller wrote is
\* no longer in the lock file; and once no caller is inside withLock, the lock
\* file is absent or names a dead process, so that the next withLock by any
\* caller acquires the lock.
C2_ReleasedOnEveryExit ==
    /\ \A c \in Callers :
           pc[c] = "done" => ~(lockFile # NoLock /\ lockFile.writer = c)
    /\ Quiescent =>
           \/ lockFile = NoLock
           \/ \A c \in Callers : AcquireDecision(lockFile, OverrideStale(c), now) # "null"

\* a withLock whose work failed has settled and the lock file is gone
C2_Witness ==
    \E c \in Callers : pc[c] = "done" /\ err[c] = "work failed" /\ lockFile = NoLock

\* C9: a workflow started through a route or the CLI runs, from start to end, while
\* the lock record names the process that executes it.
C9_HeldThroughout ==
    \A c \in Working : lockFile # NoLock /\ lockFile.pid = PidOf(c)

(***************************************************************************)
(* URLs (src/utils/url.ts)                                                 *)
(*                                                                         *)
(* A URL is a record of the parts the code looks at:                       *)
(*   valid    whether "new URL(url)" parses it                             *)
(*   locale   a leading /en/-style path segment                            *)
(*   place    the segment after /maps/place/                               *)
(*   seg      the segment after the place name (Null when absent)          *)
(*   utm      a utm_source/utm_medium/utm_campaign/gid query parameter     *)
(*   cid      the cid query parameter (Null when absent)                   *)
(*   hl       a zoom/hl query parameter                                    *)
(*   dataPid  the !16s part of the data query parameter (Null when absent) *)
(*   dataCid  the cid= part of the data query parameter (Null when absent) *)
(***************************************************************************)
MkUrl(place, seg, utm, cid, dataCid) ==
    [valid |-> TRUE, locale |-> utm, place |-> place, seg |-> seg, utm |-> utm,
     cid |-> cid, hl |-> utm, dataPid |-> Null, dataCid |-> dataCid]

BadUrl ==
    [valid |-> FALSE, locale |-> FALSE, place |-> "not a url", seg |-> Null, utm |-> FALSE,
     cid |-> Null, hl |-> FALSE, dataPid |-> Null, dataCid |-> Null]

\* the url column of a row that has none
NoUrl == [BadUrl EXCEPT !.place = ""]

\* the URLs submitted for onboarding
Urls ==
    { MkUrl("Cafe", "ChIJ1", FALSE, Null, Null),
      MkUrl("Cafe", "ChIJ1", TRUE, Null, Null),
      MkUrl("Pub", Null, FALSE, Null, "77"),
      MkUrl("Inn", "ChIJ2", FALSE, Null, "77"),
      BadUrl }

\* URL.toString()
UrlText(u) ==
    IF ~u.valid THEN u.place
    ELSE "https://www.google.com"
         \o (IF u.locale THEN "/en" ELSE "")
         \o "/maps/place/" \o u.place
         \o (IF u.seg # Null THEN "/" \o u.seg ELSE "")
         \o "?"
         \o (IF u.utm THEN "utm_source=x&" ELSE "")
         \o (IF u.cid # Null THEN "cid=" \o u.cid \o "&" ELSE "")
         \o (IF u.hl THEN "hl=en&" ELSE "")
         \o (IF u.dataPid # Null \/ u.dataCid # Null
             THEN "data=" \o (IF u.dataPid # Null THEN "!3d1!4d2!16s" \o u.dataPid ELSE "")
                          \o (IF u.dataCid # Null THEN "cid:" \o u.dataCid ELSE "")
             ELSE "")

\* url.ts:5-44: drops the tracking parameters (cid among them), the locale
\* segment and zoom/hl; an unparsable input is returned as it is
normalizeGoogleMapsUrl(u) ==
    IF ~u.valid THEN u
    ELSE [u EXCEPT !.utm = FALSE, !.cid = Null, !.locale = FALSE, !.hl = FALSE]

\* url.ts:46-67
extractPlaceId(u) ==
    IF ~u.valid THEN Null
    ELSE IF u.seg # Null THEN u.seg
    ELSE u.dataPid

\* url.ts:69-90
extractCid(u) ==
    IF ~u.valid THEN Null
    ELSE IF u.cid # Null THEN u.cid
    ELSE u.dataCid

\* url.ts:92-108
deriveKeyCidFirst(u, placeId, cid) ==
    IF cid # Null THEN "cid:" \o cid
    ELSE IF placeId # Null THEN "place_id:" \o placeId
    ELSE "url:" \o UrlText(normalizeGoogleMapsUrl(u))

deriveCanonicalBusinessKey(u, placeId, cid) ==
    IF placeId # Null THEN "place_id:" \o placeId
    ELSE IF cid # Null THEN "cid:" \o cid
    ELSE "url:" \o UrlText(normalizeGoogleMapsUrl(u))

(***************************************************************************)
(* Dates (src/utils/timezone.ts)                                           *)
(***************************************************************************)
\* timezone.ts:5-12: the civil date in Europe/Dublin of an instant, as the number
\* of the day (the model's epoch is a Dublin midnight)
getDublinDate(t) == t \div MsPerDay

(***************************************************************************)
(* Extraction (src/services/playwright.ts)                                 *)
(***************************************************************************)
ErrorCode ==
    {"INVALID_URL", "NOT_LOGGED_IN", "PAGE_LOAD_FAILED", "EXTRACTION_FAILED",
     "CONSENT_REQUIRED", "BOT_DETECTED", "SHEETS_AUTH_REQUIRED", "SHEETS_WRITE_FAILED",
     "DRIVE_AUTH_REQUIRED", "DRIVE_WRITE_FAILED", "RUN_IN_PROGRESS"}

\* what the browser finds at a URL
MkPage(navFails, consent, captcha, before, name, address, reviewCount, starRating) ==
    [navFails |-> navFails, consentVisible |-> consent, captchaVisible |-> captcha,
     beforeContinue |-> before, name |-> name, address |-> address, webpage |-> Null,
     phone |-> Null, openClosedStatus |-> IF name = Null THEN "UNKNOWN" ELSE "OPEN",
     reviewCount |-> reviewCount, starRating |-> starRating]

Pages ==
    { MkPage(FALSE, FALSE, FALSE, FALSE, "Cafe", "1 Main St", 100, 42),
      MkPage(FALSE, FALSE, FALSE, FALSE, Null, Null, NoNumber, 45),
      MkPage(TRUE, FALSE, FALSE, FALSE, Null, Null, NoNumber, NoNumber),
      MkPage(FALSE, TRUE, FALSE, FALSE, "Cafe", "1 Main St", 100, 42),
      MkPage(FALSE, FALSE, FALSE, TRUE, Null, Null, NoNumber, NoNumber) }

\* a detector that does not look for the consent screen
detectInterstitialNoConsent(page) ==
    IF page.captchaVisible THEN "BOT_DETECTED"
    ELSE IF page.beforeContinue THEN "BOT_DETECTED"
    ELSE Null

\* playwright.ts:55-75
detectInterstitial(page) ==
    IF page.consentVisible THEN "CONSENT_REQUIRED"
    ELSE IF page.captchaVisible THEN "BOT_DETECTED"
    ELSE IF page.beforeContinue THEN "BOT_DETECTED"
    ELSE Null

\* the terminal observation of a page-level failure
FailedExtraction(code) ==
    [name |-> Null, address |-> Null, webpage |-> Null, phone |-> Null,
     openClosedStatus |-> "UNKNOWN", reviewCount |-> NoNumber, starRating |-> NoNumber,
     errorCode |-> code]

\* an extraction that reads the rating whatever the review count is
extractBusinessDataRatingAlways(page) ==
    IF page.navFails THEN FailedExtraction("PAGE_LOAD_FAILED")
    ELSE IF detectInterstitial(page) # Null THEN FailedExtraction(detectInterstitial(page))
    ELSE [name |-> page.name, address |-> page.address, webpage |-> page.webpage,
          phone |-> page.phone, openClosedStatus |-> page.openClosedStatus,
          reviewCount |-> page.reviewCount, starRating |-> page.starRating,
          errorCode |-> IF page.name = Null /\ page.address = Null
                           /\ page.webpage = Null /\ page.phone = Null
                        THEN "EXTRACTION_FAILED" ELSE Null]

\* an extraction that fails whenever the name is unresolved
extractBusinessDataNameOnly(page) ==
    IF page.navFails THEN FailedExtraction("PAGE_LOAD_FAILED")
    ELSE IF detectInterstitial(page) # Null THEN FailedExtraction(detectInterstitial(page))
    ELSE [name |-> page.name, address |-> page.address, webpage |-> page.webpage,
          phone |-> page.phone, openClosedStatus |-> page.openClosedStatus,
          reviewCount |-> page.reviewCount,
          starRating |-> IF page.reviewCount = NoNumber THEN NoNumber ELSE page.starRating,
          errorCode |-> IF page.name = Null THEN "EXTRACTION_FAILED" ELSE Null]

\* playwright.ts:77-307 (the link of the observation is the URL it was given)
extractBusinessData(page) ==
    IF page.navFails THEN FailedExtraction("PAGE_LOAD_FAILED")
    ELSE IF detectInterstitial(page) # Null THEN FailedExtraction(detectInterstitial(page))
    ELSE [name |-> page.name, address |-> page.address, webpage |-> page.webpage,
          phone |-> page.phone, openClosedStatus |-> page.openClosedStatus,
          reviewCount |-> page.reviewCount,
          starRating |-> IF page.reviewCount = NoNumber THEN NoNumber ELSE page.starRating,
          errorCode |-> IF page.name = Null /\ page.address = Null
                           /\ page.webpage = Null /\ page.phone = Null
                        THEN "EXTRACTION_FAILED" ELSE Null]

(***************************************************************************)
(* The record store (src/db/schema.ts) and the external ledgers            *)
(***************************************************************************)
NoSheet == 0

NewRow(key, placeId, cid, url, name) ==
    [canonicalBusinessKey |-> key, placeId |-> placeId, cid |-> cid, url |-> url,
     spreadsheetId |-> NoSheet, folderId |-> Null,
     lastCheckedDate |-> NoNumber, lastCheckedAt |-> NoNumber]

\* schema.ts:78-93: canonicalBusinessKey TEXT UNIQUE NOT NULL, placeId TEXT UNIQUE,
\* cid TEXT UNIQUE (NULLs do not collide)
UniqueViolated(b, row) ==
    \E i \in DOMAIN b :
        \/ b[i].canonicalBusinessKey = row.canonicalBusinessKey
        \/ (row.placeId # Null /\ b[i].placeId = row.placeId)
        \/ (row.cid # Null /\ b[i].cid = row.cid)

\* 'UPDATE businesses SET spreadsheetId = ?, folderId = ? WHERE id = ?'
SetArtifactsForgets(b, id, s, f) == b

SetArtifacts(b, id, s, f) ==
    IF id \in DOMAIN b THEN [b EXCEPT ![id].spreadsheetId = s, ![id].folderId = f] ELSE b

\* 'UPDATE businesses SET spreadsheetId = NULL WHERE id = ?'
ClearSpreadsheet(b, id) ==
    IF id \in DOMAIN b THEN [b EXCEPT ![id].spreadsheetId = NoSheet] ELSE b

\* 'UPDATE businesses SET lastCheckedDate = ?, lastCheckedAt = ? WHERE id = ?'
SetCheckedRekeyed(b, id, d, t) ==
    IF id \in DOMAIN b
    THEN [b EXCEPT ![id].lastCheckedDate = d, ![id].lastCheckedAt = t,
                   ![id].canonicalBusinessKey = "url:" \o UrlText(b[id].url)]
    ELSE b

SetChecked(b, id, d, t) ==
    IF id \in DOMAIN b
    THEN [b EXCEPT ![id].lastCheckedDate = d, ![id].lastCheckedAt = t]
    ELSE b

\* drive.createBusinessFolder: the folder of that name in the main folder,
\* found or created
businessFolder(name) == "folder:" \o (IF name = Null THEN "Unknown Business" ELSE name)

businessName(name) == IF name = Null THEN "Unknown Business" ELSE name

\* sheets.createSpreadsheet(name, folderId): a new document, empty below the header
NewSheet(title, folder) == [title |-> title, folder |-> folder, rows |-> <<>>]

\* sheets.findSpreadsheetInFolder(folderId, name): the documents of that title in
\* the folder
SheetsInFolder(folder, title) ==
    {s \in DOMAIN sheets : sheets[s].folder = folder /\ sheets[s].title = title}

\* the row appendSnapshot writes (the cells this model tracks), with the workflow
\* that wrote it
SnapshotRowNoCode(c) ==
    [call |-> c.no, biz |-> c.id, date |-> c.snapDate,
     name |-> c.extracted.name, errorCode |-> Null,
     screenshotLink |-> c.screenshotLink]

SnapshotRow(c) ==
    [call |-> c.no, biz |-> c.id, date |-> c.snapDate,
     name |-> c.extracted.name, errorCode |-> c.extracted.errorCode,
     screenshotLink |-> c.screenshotLink]

\* sheets.spreadsheets.values.append: the row is added, or the call throws and
\* nothing is added
AppendedRowsAlways(rows, row, ok) == Append(rows, row)

AppendedRows(rows, row, ok) == IF ok THEN Append(rows, row) ELSE rows

(***************************************************************************)
(* Spec: the workflows of BusinessService                                  *)
(***************************************************************************)
NotExtracted == FailedExtraction(Null)

NewCall(op, entry, id, force, url) ==
    [op |-> op, entry |-> entry, no |-> callNo + 1, id |-> id, force |-> force,
     pc |-> "start", today |-> NoNumber, url |-> url,
     key |-> Null, placeId |-> Null, cid |-> Null,
     spreadsheetId |-> NoSheet, folderId |-> Null, extracted |-> NotExtracted,
     snapDate |-> NoNumber, screenshotLink |-> Null,
     appended |-> 0, raised |-> "", outcome |-> "running",
     was |-> [lastCheckedDate |-> NoNumber, lastCheckedAt |-> NoNumber,
              spreadsheetId |-> NoSheet]]

\* the message of the error getContext() or newPage() throws
BrowserError == "browserType.launch: Target page, context or browser has been closed"

Raised(c, msg) == [c EXCEPT !.pc = "done", !.outcome = "raised", !.raised = msg]

Returned(c, how) == [c EXCEPT !.pc = "done", !.outcome = how]

At(op, at) == call.op = op /\ call.pc = at

\* the force argument each entry point passes to runCheck: the route
\* POST /:id/check passes true, the daily loop of cli.ts passes none (false)
ForceOf(entry) == entry = "POST /:id/check"

\* session.ts:505-510: the daily gate
DailyGateSkipsNever(force, lastCheckedDate, today) == FALSE

DailyGateSkips(force, lastCheckedDate, today) == ~force /\ lastCheckedDate = today

\* session.ts:494-512: runCheck is entered (the caller holds the Run Gate: one
\* workflow at a time)
StartCheck(entry, id) ==
    /\ call = NoCall
    /\ callNo < MaxCalls
    /\ callNo' = callNo + 1
    /\ LET c == NewCall("check", entry, id, ForceOf(entry), NoUrl)
           today == getDublinDate(now) IN
       IF id \notin DOMAIN businesses
       THEN call' = Raised(c, "Business not found")
       ELSE LET b == businesses[id]
                c1 == [c EXCEPT !.today = today, !.url = b.url,
                                !.spreadsheetId = b.spreadsheetId,
                                !.folderId = b.folderId,
                                !.was = [lastCheckedDate |-> b.lastCheckedDate,
                                         lastCheckedAt |-> b.lastCheckedAt,
                                         spreadsheetId |-> b.spreadsheetId]] IN
            IF DailyGateSkips(c.force, b.lastCheckedDate, today)
            THEN call' = Returned(c1, "skipped")
            ELSE call' = [c1 EXCEPT !.pc = "checkLoggedIn"]
    /\ UNCHANGED <<businesses, lastID, sheets, gated, lockVars, now, probe>>

\* session.ts:426-430 and 514-518: playwright.checkLoggedIn(); its getContext() and
\* newPage() are outside its try and throw when the browser cannot be started
CheckLoggedIn ==
    /\ call.op \in {"check", "create"}
    /\ call.pc = "checkLoggedIn"
    /\ \/ call' = Raised(call, BrowserError)
       \/ \E loggedIn \in BOOLEAN :
            call' = IF ~loggedIn THEN Raised(call, "NOT_LOGGED_IN")
                    ELSE [call EXCEPT !.pc = IF call.op = "check" THEN "isAuthenticated"
                                             ELSE "extract"]
    /\ UNCHANGED <<businesses, lastID, sheets, callNo, gated, lockVars, now, probe>>

\* session.ts:520-530: authService.isAuthenticated(), then the URL of the row
IsAuthenticated ==
    /\ At("check", "isAuthenticated")
    /\ \E isAuthenticated \in BOOLEAN :
        call' = IF ~isAuthenticated THEN Raised(call, "SHEETS_AUTH_REQUIRED")
                ELSE IF call.url = NoUrl THEN Raised(call, "INVALID_URL")
                ELSE [call EXCEPT !.pc = "extract"]
    /\ UNCHANGED <<businesses, lastID, sheets, callNo, gated, lockVars, now, probe>>

\* session.ts:432-433 and 532-533: playwright.extractBusinessData(url); everything
\* after newPage() is inside its try
Extract ==
    /\ call.op \in {"check", "create"}
    /\ call.pc = "extract"
    /\ \/ call' = Raised(call, BrowserError)
       \/ \E page \in Pages :
            call' = [call EXCEPT !.extracted = extractBusinessData(page),
                                 !.pc = IF call.op = "check" THEN "baseline" ELSE "insert"]
    /\ UNCHANGED <<businesses, lastID, sheets, callNo, gated, lockVars, now, probe>>

\* session.ts:535-539: sheets.getLastSnapshot; its refreshTokenIfNeeded is outside
\* its try and may throw
GetBaseline ==
    /\ At("check", "baseline")
    /\ \E tokenOk \in BOOLEAN :
        call' = IF call.spreadsheetId # NoSheet /\ ~tokenOk
                THEN Raised(call, "SHEETS_AUTH_REQUIRED")
                ELSE [call EXCEPT !.pc = "ensure"]
    /\ UNCHANGED <<businesses, lastID, sheets, callNo, gated, lockVars, now, probe>>

\* where runCheck goes after createSnapshot (session.ts:596-602)
AfterSnapshotToRecord(c) == [c EXCEPT !.snapDate = getDublinDate(now), !.pc = "record"]

AfterSnapshotAlwaysShoots(c) == [c EXCEPT !.snapDate = getDublinDate(now), !.pc = "screenshot"]

AfterSnapshot(c) ==
    [c EXCEPT !.snapDate = getDublinDate(now),
              !.pc = IF c.folderId # Null /\ c.extracted.errorCode = Null
                     THEN "screenshot" ELSE "append"]

\* session.ts:541-580: folder or document missing: provision them, tolerating failure
EnsureArtifacts ==
    /\ At("check", "ensure")
    /\ call.folderId = Null \/ call.spreadsheetId = NoSheet
    /\ LET name == businessName(call.extracted.name)
           folder == IF call.folderId # Null THEN call.folderId
                     ELSE businessFolder(call.extracted.name) IN
       \/ \* a Drive or Sheets call throws: caught, nothing stored
          /\ call' = AfterSnapshot(call)
          /\ UNCHANGED <<businesses, sheets>>
       \/ \* the document is there already or is found in the folder
          \E s \in (IF call.spreadsheetId # NoSheet THEN {call.spreadsheetId}
                    ELSE SheetsInFolder(folder, name)) :
              /\ businesses' = SetArtifacts(businesses, call.id, s, folder)
              /\ call' = AfterSnapshot([call EXCEPT !.spreadsheetId = s, !.folderId = folder])
              /\ UNCHANGED sheets
       \/ \* none is found (or the search failed): a new document is created
          /\ call.spreadsheetId = NoSheet
          /\ sheets' = Append(sheets, NewSheet(name, folder))
          /\ businesses' = SetArtifacts(businesses, call.id, Len(sheets) + 1, folder)
          /\ call' = AfterSnapshot([call EXCEPT !.spreadsheetId = Len(sheets) + 1,
                                                !.folderId = folder])
    /\ UNCHANGED <<lastID, callNo, gated, lockVars, now, probe>>

\* session.ts:581-593: both ids stored: verify that the document still exists
VerifySpreadsheet ==
    /\ At("check", "ensure")
    /\ call.folderId # Null /\ call.spreadsheetId # NoSheet
    /\ \/ \* refreshTokenIfNeeded throws inside verifySpreadsheetExists
          /\ call' = Raised(call, "SHEETS_AUTH_REQUIRED")
          /\ UNCHANGED businesses
       \/ \* the document is gone (or the lookup failed): forget its id
          /\ businesses' = ClearSpreadsheet(businesses, call.id)
          /\ call' = AfterSnapshot([call EXCEPT !.spreadsheetId = NoSheet])
       \/ \* it exists; getOrCreateScreenshotsFolder succeeds
          /\ call' = AfterSnapshot(call)
          /\ UNCHANGED businesses
       \/ \* it exists; getOrCreateScreenshotsFolder throws, outside any try
          /\ call' = Raised(call, "Failed to create screenshots folder")
          /\ UNCHANGED businesses
    /\ UNCHANGED <<lastID, sheets, callNo, gated, lockVars, now, probe>>

\* session.ts:598-670: capture and upload, every failure swallowed
Screenshot ==
    /\ At("check", "screenshot")
    /\ \E link \in {Null, "https://drive.google.com/file"} :
        call' = [call EXCEPT !.screenshotLink = link, !.pc = "append"]
    /\ UNCHANGED <<businesses, lastID, sheets, callNo, gated, lockVars, now, probe>>

\* session.ts:674-686
AppendSnapshot ==
    /\ At("check", "append")
    /\ IF call.spreadsheetId = NoSheet
       THEN /\ call' = Raised(call,
                  "SHEETS_WRITE_FAILED: No spreadsheet ID available for business")
            /\ UNCHANGED sheets
       ELSE \E ok \in BOOLEAN :
            /\ sheets' = [sheets EXCEPT ![call.spreadsheetId].rows =
                              AppendedRows(@, SnapshotRow(call), ok)]
            /\ call' = IF ok THEN [call EXCEPT !.pc = "record", !.appended = @ + 1]
                       ELSE Raised(call, "SHEETS_WRITE_FAILED: " \o "The caller does not have permission")
    /\ UNCHANGED <<businesses, lastID, callNo, gated, lockVars, now, probe>>

\* session.ts:688-695
RecordCheck ==
    /\ At("check", "record")
    /\ businesses' = SetChecked(businesses, call.id, call.today, now)
    /\ gated' = IF call.force THEN gated
                ELSE gated \cup {[no |-> call.no, biz |-> call.id, day |-> call.today]}
    /\ call' = Returned(call, "ok")
    /\ UNCHANGED <<lastID, sheets, callNo, lockVars, now, probe>>

\* session.ts:381-393: what createBusiness derives from the submitted URL
Onboarded(u) ==
    LET normalizedUrl == normalizeGoogleMapsUrl(u)
        placeId == extractPlaceId(normalizedUrl)
        cid == extractCid(normalizedUrl) IN
    [url |-> normalizedUrl, placeId |-> placeId, cid |-> cid,
     key |-> deriveCanonicalBusinessKey(normalizedUrl, placeId, cid)]

\* session.ts:381-424: how createBusiness answers a submission before it touches
\* the browser: "INVALID_URL", "existing" (the stored entity is returned),
\* "Duplicate placeId", "Duplicate cid" or "proceed"
CreateDecisionNoCidCheck(b, o) ==
    IF ~o.url.valid THEN "INVALID_URL"
    ELSE IF \E i \in DOMAIN b : b[i].canonicalBusinessKey = o.key THEN "existing"
    ELSE IF o.placeId # Null /\ \E i \in DOMAIN b : b[i].placeId = o.placeId
    THEN "Duplicate placeId"
    ELSE "proceed"

CreateDecision(b, o) ==
    IF ~o.url.valid THEN "INVALID_URL"
    ELSE IF \E i \in DOMAIN b : b[i].canonicalBusinessKey = o.key THEN "existing"
    ELSE IF o.placeId # Null /\ \E i \in DOMAIN b : b[i].placeId = o.placeId
    THEN "Duplicate placeId"
    ELSE IF o.cid # Null /\ \E i \in DOMAIN b : b[i].cid = o.cid
    THEN "Duplicate cid"
    ELSE "proceed"

\* session.ts:380-424: createBusiness is entered (the caller holds the Run Gate)
StartCreate(u) ==
    /\ call = NoCall
    /\ callNo < MaxCalls
    /\ callNo' = callNo + 1
    /\ LET o == Onboarded(u)
           d == CreateDecision(businesses, o)
           c == [NewCall("create", "POST /", 0, FALSE, o.url)
                     EXCEPT !.key = o.key, !.placeId = o.placeId, !.cid = o.cid] IN
       IF d = "existing"
       THEN call' = Returned(
                [c EXCEPT !.id = CHOOSE i \in DOMAIN businesses :
                                     businesses[i].canonicalBusinessKey = o.key],
                "existing")
       ELSE IF d # "proceed"
       THEN call' = Raised(c, d)
       ELSE /\ lastID < MaxBusinesses
            /\ call' = [c EXCEPT !.pc = "checkLoggedIn"]
    /\ UNCHANGED <<businesses, lastID, sheets, gated, lockVars, now, probe>>

\* session.ts:435-442: INSERT INTO businesses
InsertBusiness ==
    /\ At("create", "insert")
    /\ LET row == NewRow(call.key, call.placeId, call.cid, call.url, call.extracted.name) IN
       IF UniqueViolated(businesses, row)
       THEN /\ call' = Raised(call, "SQLITE_CONSTRAINT: UNIQUE constraint failed")
            /\ UNCHANGED <<businesses, lastID>>
       ELSE /\ businesses' = (lastID + 1 :> row) @@ businesses
            /\ lastID' = lastID + 1
            /\ call' = [call EXCEPT !.id = lastID + 1, !.pc = "provision"]
    /\ UNCHANGED <<sheets, callNo, gated, lockVars, now, probe>>

\* session.ts:444-478: folder and document, only when the cloud collaborator is
\* authenticated, every failure tolerated
Provision ==
    /\ At("create", "provision")
    /\ \/ \* not authenticated, or a Drive or Sheets call throws
          /\ call' = Returned(call, "ok")
          /\ UNCHANGED <<businesses, sheets>>
       \/ LET name == businessName(call.extracted.name)
              folder == businessFolder(call.extracted.name) IN
          /\ sheets' = Append(sheets, NewSheet(name, folder))
          /\ businesses' = SetArtifacts(businesses, call.id, Len(sheets) + 1, folder)
          /\ call' = [call EXCEPT !.spreadsheetId = Len(sheets) + 1, !.folderId = folder,
                                  !.pc = "firstAppend"]
    /\ UNCHANGED <<lastID, callNo, gated, lockVars, now, probe>>

\* session.ts:477-480: the first snapshot; appendSnapshot's failure is not caught
FirstAppend ==
    /\ At("create", "firstAppend")
    /\ LET c == [call EXCEPT !.snapDate = getDublinDate(now)] IN
       \E ok \in BOOLEAN :
        /\ sheets' = [sheets EXCEPT ![call.spreadsheetId].rows =
                          AppendedRows(@, SnapshotRow(c), ok)]
        /\ call' = IF ok THEN [c EXCEPT !.pc = "firstRecord", !.appended = @ + 1]
                   ELSE Raised(c, "The caller does not have permission")
    /\ UNCHANGED <<businesses, lastID, callNo, gated, lockVars, now, probe>>

\* session.ts:482-491
FirstRecord ==
    /\ At("create", "firstRecord")
    /\ businesses' = SetChecked(businesses, call.id, getDublinDate(now), now)
    /\ call' = Returned(call, "ok")
    /\ UNCHANGED <<lastID, sheets, callNo, gated, lockVars, now, probe>>

\* the route has answered and withLock has released the Run Gate
FinishCall ==
    /\ call # NoCall
    /\ call.pc = "done"
    /\ call' = NoCall
    /\ UNCHANGED <<businesses, lastID, sheets, callNo, gated, lockVars, now, probe>>

\* session.ts:752-764, behind DELETE /:id, which takes no lock
DeleteBusiness(id) ==
    /\ id \in DOMAIN businesses
    /\ businesses' = [i \in DOMAIN businesses \ {id} |-> businesses[i]]
    /\ UNCHANGED <<lastID, sheets, call, callNo, gated, lockVars, now, probe>>

\* a day passes (at any point of a workflow: a check may cross midnight)
DayTick ==
    /\ now < MaxDayTicks * DayTickMs
    /\ now' = now + DayTickMs
    /\ UNCHANGED <<checkVars, lockVars, probe>>

Entries == {"POST /:id/check", "cli run-daily-check"}

Next ==
    \/ \E e \in Entries, id \in 1..MaxBusinesses : StartCheck(e, id)
    \/ CheckLoggedIn
    \/ IsAuthenticated
    \/ Extract
    \/ GetBaseline
    \/ EnsureArtifacts
    \/ VerifySpreadsheet
    \/ Screenshot
    \/ AppendSnapshot
    \/ RecordCheck
    \/ \E u \in Urls : StartCreate(u)
    \/ InsertBusiness
    \/ Provision
    \/ FirstAppend
    \/ FirstRecord
    \/ FinishCall
    \/ \E id \in 1..MaxBusinesses : DeleteBusiness(id)
    \/ DayTick

Spec == Init /\ [][Next]_vars

(***************************************************************************)
(* Properties of the check orchestrator                                    *)
(***************************************************************************)
\* every observation row of every ledger
AllRows ==
    UNION {{sheets[s].rows[i] : i \in DOMAIN sheets[s].rows} : s \in DOMAIN sheets}

\* the rows the workflow number n has appended, by place
RowsOf(n) ==
    UNION {{<<s, i>> : i \in {j \in DOMAIN sheets[s].rows : sheets[s].rows[j].call = n}} :
              s \in DOMAIN sheets}

\* a runCheck is in flight, or has just ended, in the given way
CheckEnded == call.op = "check" /\ call.pc = "done"

\* the stored lastCheckedDate and lastCheckedAt of the entity of the workflow are
\* what they were when the workflow read its row (vacuous once it is deleted)
CheckedUnchanged ==
    call.id \in DOMAIN businesses =>
        /\ businesses[call.id].lastCheckedDate = call.was.lastCheckedDate
        /\ businesses[call.id].lastCheckedAt = call.was.lastCheckedAt

\* the codes of the page-level failures
PageLevel == {"PAGE_LOAD_FAILED", "CONSENT_REQUIRED", "BOT_DETECTED"}

\* the messages runCheck raises for SHEETS_WRITE_FAILED
WriteFailed ==
    {"SHEETS_WRITE_FAILED: No spreadsheet ID available for business",
     "SHEETS_WRITE_FAILED: The caller does not have permission"}

\* C3: the daily gate. For every entity and every Dublin day, at most one runCheck
\* with force unset that was called on that day appends a row and records the
\* check; every later non-forced call on that day ends at the gate: skipped,
\* nothing extracted, nothing appended, lastCheckedDate and lastCheckedAt untouched.
C3_DailyGate ==
    /\ \A g1, g2 \in gated : g1.biz = g2.biz /\ g1.day = g2.day => g1.no = g2.no
    /\ (/\ call.op = "check"
        /\ ~call.force
        /\ \E g \in gated : g.biz = call.id /\ g.day = call.today /\ g.no # call.no)
       => /\ call.pc = "done"
          /\ call.outcome = "skipped"
          /\ call.extracted = NotExtracted
          /\ call.appended = 0
          /\ RowsOf(call.no) = {}
          /\ CheckedUnchanged

\* a non-forced check is skipped on a day on which an earlier non-forced check of
\* the same entity appended and recorded
C3_Witness ==
    /\ call.op = "check"
    /\ ~call.force
    /\ call.outcome = "skipped"
    /\ \E g \in gated : g.biz = call.id /\ g.day = call.today /\ g.no < call.no
    /\ \E r \in AllRows : r.biz = call.id /\ r.date = call.today

\* C4: at most one observation row per business is appended for any one Dublin
\* day.
C4_OneRowPerDay ==
    \A r1, r2 \in AllRows : r1.biz = r2.biz /\ r1.date = r2.date => r1.call = r2.call

C6_FailureLeavesState ==
    (CheckEnded /\ call.raised \in {"NOT_LOGGED_IN", "SHEETS_AUTH_REQUIRED"} \cup WriteFailed) =>
        /\ RowsOf(call.no) = {}
        /\ call.appended = 0
        /\ CheckedUnchanged
        /\ (call.id \in DOMAIN businesses /\ ~call.force) =>
               ~DailyGateSkips(FALSE, businesses[call.id].lastCheckedDate, call.today)

\* the append of a check has failed after a good extraction
C6_Witness ==
    /\ CheckEnded
    /\ call.raised = "SHEETS_WRITE_FAILED: The caller does not have permission"
    /\ call.extracted.errorCode = Null
    /\ call.id \in DOMAIN businesses
    /\ RowsOf(call.no) = {}

\* C7 as stated: when extraction ended in a page-level failure, runCheck appends
\* exactly one row carrying that code and then records the check.
C7_AlwaysAppends ==
    (CheckEnded /\ call.extracted.errorCode \in PageLevel) =>
        /\ call.outcome = "ok"
        /\ \E r \in AllRows : r.call = call.no /\ r.errorCode = call.extracted.errorCode

\* C7, amended: a page-level failure is never what runCheck raises. When extraction
\* ended in PAGE_LOAD_FAILED, CONSENT_REQUIRED or BOT_DETECTED, no screenshot is
\* taken and runCheck either appends exactly one row carrying that code and
\* records the check under the day it started, or a later cloud step failed (token
\* refresh, screenshots folder, the append), that failure is what it raises, no
\* row is written and the check is not recorded.
C7_AppendsUnlessCloudFails ==
    (call.op = "check" /\ call.extracted.errorCode \in PageLevel) =>
        /\ call.pc # "screenshot"
        /\ call.screenshotLink = Null
        /\ call.raised \notin ErrorCode \ {"SHEETS_AUTH_REQUIRED"}
        /\ call.pc = "done" =>
            \/ /\ call.outcome = "ok"
               /\ Cardinality(RowsOf(call.no)) = 1
               /\ \A p \in RowsOf(call.no) :
                      /\ sheets[p[1]].rows[p[2]].errorCode = call.extracted.errorCode
                      /\ sheets[p[1]].rows[p[2]].name = Null
               /\ call.id \in DOMAIN businesses =>
                      businesses[call.id].lastCheckedDate = call.today
            \/ /\ call.outcome = "raised"
               /\ call.raised \in {"SHEETS_AUTH_REQUIRED", "Failed to create screenshots folder"}
                                   \cup WriteFailed
               /\ RowsOf(call.no) = {}
               /\ CheckedUnchanged

\* a check whose page showed the consent screen has appended its row and recorded
C7_Witness ==
    /\ CheckEnded
    /\ call.outcome = "ok"
    /\ call.extracted.errorCode = "CONSENT_REQUIRED"
    /\ \E r \in AllRows : r.call = call.no /\ r.errorCode = "CONSENT_REQUIRED"
    /\ call.id \in DOMAIN businesses
    /\ businesses[call.id].lastCheckedDate = call.today

\* C8: every error runCheck raises has one of the eleven codes as its message.
C8_ClosedTaxonomy ==
    (call.op = "check" /\ call.outcome = "raised") => call.raised \in ErrorCode

\* no two stored entities share a key, a non-null placeId or a non-null cid
UniqueEntities ==
    \A i, j \in DOMAIN businesses :
        i # j =>
            /\ businesses[i].canonicalBusinessKey # businesses[j].canonicalBusinessKey
            /\ businesses[i].placeId # Null => businesses[i].placeId # businesses[j].placeId
            /\ businesses[i].cid # Null => businesses[i].cid # businesses[j].cid

\* no step changes the key of a stored entity
KeysKept ==
    \A i \in DOMAIN businesses :
        i \in DOMAIN businesses' =>
            businesses'[i].canonicalBusinessKey = businesses[i].canonicalBusinessKey

\* C10: after any sequence of onboarding, check and delete operations no two stored
\* entities share a canonicalBusinessKey, a non-null placeId or a non-null cid, and
\* the canonicalBusinessKey of an entity never changes after it is created.
C10_UniqueAndImmutable == [](UniqueEntities) /\ [][KeysKept]_vars

\* two entities are stored and an onboarding that shares the cid of one of them
\* has been rejected
C10_Witness ==
    /\ Cardinality(DOMAIN businesses) = 2
    /\ call.op = "create"
    /\ call.raised = "Duplicate cid"
    /\ \E i \in DOMAIN businesses : businesses[i].cid = call.cid

\* the stored entities a create workflow that has inserted nothing collides with
KeyCollisions ==
    {i \in DOMAIN businesses : businesses[i].canonicalBusinessKey = call.key}

IdCollisions ==
    {i \in DOMAIN businesses :
        \/ (call.placeId # Null /\ businesses[i].placeId = call.placeId)
        \/ (call.cid # Null /\ businesses[i].cid = call.cid)}

\* the create workflow in flight has inserted no row
NothingInserted == call.op = "create" /\ (call.id = 0 \/ call.outcome = "existing")

\* C11 as stated: a submission that collides with a stored entity on its key,
\* place-id or cid is rejected with a duplicate error.
C11_CollisionRaises ==
    (NothingInserted /\ call.pc = "done" /\ KeyCollisions \cup IdCollisions # {}) =>
        call.outcome = "raised" /\ call.raised \in {"Duplicate placeId", "Duplicate cid"}

\* C11, amended: a submission whose canonical key is the key of a stored entity
\* creates nothing and is answered, without an error, with that entity; one whose
\* place-id or cid, but not its key, is that of a stored entity is rejected
\* with 'Duplicate placeId' or 'Duplicate cid' and creates nothing; one that is not
\* a parsable URL is rejected with INVALID_URL and creates nothing.
C11_CollisionCreatesNothing ==
    NothingInserted =>
        /\ KeyCollisions # {} =>
               /\ call.pc = "done" /\ call.outcome = "existing" /\ call.raised = ""
               /\ call.id \in KeyCollisions
        /\ (KeyCollisions = {} /\ IdCollisions # {}) =>
               /\ call.pc = "done" /\ call.outcome = "raised" /\ call.id = 0
               /\ call.raised \in {"Duplicate placeId", "Duplicate cid"}
        /\ ~call.url.valid =>
               /\ call.pc = "done" /\ call.raised = "INVALID_URL" /\ call.id = 0
        /\ call.raised \in {"Duplicate placeId", "Duplicate cid", "INVALID_URL"} =>
               \A i \in DOMAIN businesses : i <= lastID /\ i # call.id

\* a submission that differs from a stored entity's URL only in tracking parameters
\* has been answered with that entity
C11_Witness ==
    /\ call.op = "create"
    /\ call.outcome = "existing"
    /\ call.id \in KeyCollisions
    /\ Cardinality(DOMAIN businesses) = 1

(***************************************************************************)
(* SpecUrl: the functions of url.ts, applied as createBusiness applies     *)
(* them (session.ts:381-393)                                               *)
(***************************************************************************)
\* the URLs submitted: every combination of the parts the functions look at, and
\* a string that is no URL
UrlInputs ==
    [valid : {TRUE}, locale : BOOLEAN, place : {"Cafe", "Pub"}, seg : {Null, "ChIJ1"},
     utm : BOOLEAN, cid : {Null, "77"}, hl : BOOLEAN, dataPid : {Null, "ChIJ9"},
     dataCid : {Null, "88"}] \cup {BadUrl}

\* the placeId and cid arguments deriveCanonicalBusinessKey is called with
IdInputs == {Null, "ChIJ1", "77"}

InitUrl ==
    /\ lockFile = NoLock
    /\ now = 0
    /\ alive = Pids
    /\ pc = [c \in Callers |-> "idle"]
    /\ err = [c \in Callers |-> ""]
    /\ businesses = <<>>
    /\ lastID = 0
    /\ sheets = <<>>
    /\ call = NoCall
    /\ callNo = 0
    /\ gated = {}
    /\ \E u \in UrlInputs : probe = [stage |-> "submitted", url |-> u]

\* session.ts:384  normalizedUrl = normalizeGoogleMapsUrl(url)
UrlNormalize ==
    /\ probe.stage = "submitted"
    /\ probe' = [stage |-> "normalized", url |-> probe.url,
                 normalizedUrl |-> normalizeGoogleMapsUrl(probe.url)]
    /\ UNCHANGED <<lockVars, checkVars, now>>

\* session.ts:391-392  extractPlaceId(normalizedUrl), extractCid(normalizedUrl)
UrlExtractIds ==
    /\ probe.stage = "normalized"
    /\ probe' = [stage |-> "extracted", url |-> probe.url,
                 normalizedUrl |-> probe.normalizedUrl,
                 placeId |-> extractPlaceId(probe.normalizedUrl),
                 cid |-> extractCid(probe.normalizedUrl)]
    /\ UNCHANGED <<lockVars, checkVars, now>>

\* session.ts:393  deriveCanonicalBusinessKey(normalizedUrl, placeId, cid)
UrlDeriveKey ==
    /\ probe.stage = "extracted"
    /\ probe' = [stage |-> "keyed", url |-> probe.url,
                 normalizedUrl |-> probe.normalizedUrl,
                 placeId |-> probe.placeId, cid |-> probe.cid,
                 key |-> deriveCanonicalBusinessKey(probe.normalizedUrl, probe.placeId,
                                                    probe.cid)]
    /\ UNCHANGED <<lockVars, checkVars, now>>

\* deriveCanonicalBusinessKey called with any placeId and cid
UrlDeriveFree(placeId, cid) ==
    /\ probe.stage = "submitted"
    /\ probe' = [stage |-> "derived", url |-> probe.url, placeId |-> placeId, cid |-> cid,
                 key |-> deriveCanonicalBusinessKey(probe.url, placeId, cid)]
    /\ UNCHANGED <<lockVars, checkVars, now>>

NextUrl ==
    \/ UrlNormalize
    \/ UrlExtractIds
    \/ UrlDeriveKey
    \/ \E placeId, cid \in IdInputs : UrlDeriveFree(placeId, cid)

SpecUrl == InitUrl /\ [][NextUrl]_vars

\* two URLs differ at most in their tracking parameters (utm_*, gid, cid), their
\* locale segment and zoom/hl
SameButTracking(u1, u2) ==
    /\ u1.valid /\ u2.valid
    /\ u1.place = u2.place /\ u1.seg = u2.seg
    /\ u1.dataPid = u2.dataPid /\ u1.dataCid = u2.dataCid

\* C12: deriveCanonicalBusinessKey yields the place-id key whenever placeId is
\* present, otherwise the cid key whenever cid is present, otherwise "url:" and the
\* normalized URL; and every URL that differs from the submitted one only in
\* tracking parameters and has a place-id gets the same key from onboarding.
C12_KeyPriority ==
    /\ probe.stage \in {"derived", "keyed"} =>
        /\ probe.placeId # Null => probe.key = "place_id:" \o probe.placeId
        /\ (probe.placeId = Null /\ probe.cid # Null) => probe.key = "cid:" \o probe.cid
        /\ (probe.placeId = Null /\ probe.cid = Null) =>
               probe.key = "url:" \o UrlText([probe.url EXCEPT
                                                 !.utm = FALSE, !.cid = Null,
                                                 !.locale = FALSE,
                                                 !.hl = FALSE])
    /\ (probe.stage = "keyed" /\ probe.placeId # Null) =>
        \A u \in UrlInputs :
            SameButTracking(u, probe.url) => Onboarded(u).key = probe.key

\* the key of a URL with tracking parameters, a locale segment and a place-id has
\* been derived
C12_Witness ==
    /\ probe.stage = "keyed"
    /\ probe.url.utm /\ probe.url.locale /\ probe.url.cid # Null
    /\ probe.placeId = "ChIJ1"
    /\ probe.key = "place_id:ChIJ1"

\* the cid a submitted URL carries: its cid parameter, else the cid of its data
\* parameter
CarriedCid(u) == IF u.cid # Null THEN u.cid ELSE u.dataCid

\* C13: a submitted URL that carries a cid and no place-id is given the cid-based
\* key and a non-null cid by onboarding.
C13_CidKeyed ==
    (/\ probe.stage = "keyed"
     /\ probe.url.valid
     /\ probe.url.seg = Null /\ probe.url.dataPid = Null
     /\ CarriedCid(probe.url) # Null)
    => /\ probe.cid = CarriedCid(probe.url)
       /\ probe.key = "cid:" \o CarriedCid(probe.url)

(***************************************************************************)
(* SpecLedger: appendSnapshot and getLastSnapshot (google-sheets.ts) on    *)
(* one Snapshots sheet                                                     *)
(***************************************************************************)
\* how many rows are appended
MaxRows == 2

\* the numbers a cell may hold (a star rating is kept in tenths)
CellNumbers == {0, 42, 100}

\* the snapshots runCheck hands to appendSnapshot
Snapshots ==
    {[date |-> "2026-11-01", checkedAt |-> "2026-11-01T09:00:00.000Z",
      link |-> "https://www.google.com/maps/place/Cafe", name |-> n,
      address |-> a, webpage |-> Null, phone |-> Null, openClosedStatus |-> "OPEN",
      reviewCount |-> rc, starRating |-> IF rc = NoNumber THEN NoNumber ELSE 42,
      activity |-> "", errorCode |-> e, screenshotLink |-> l] :
        n \in {Null, "Cafe"}, a \in {Null, "1 Main St"}, rc \in {NoNumber, 0, 100},
        e \in {Null, "CONSENT_REQUIRED"}, l \in {Null, "https://drive.google.com/file"}}

\* "x || ''" of a string-valued field
TextCell(x) == IF x = Null THEN "" ELSE x

\* "x !== null ? x : ''" of a number-valued field, as the sheet shows it
NumberCell(x) == IF x = NoNumber THEN "" ELSE ToString(x)

\* part_007:200-214: the thirteen cells appendSnapshot writes
RowOf(snapshot) ==
    <<TextCell(snapshot.date), TextCell(snapshot.checkedAt), TextCell(snapshot.link),
      TextCell(snapshot.name), TextCell(snapshot.address), TextCell(snapshot.webpage),
      TextCell(snapshot.phone), snapshot.openClosedStatus,
      NumberCell(snapshot.reviewCount), NumberCell(snapshot.starRating),
      TextCell(snapshot.activity), TextCell(snapshot.errorCode),
      TextCell(snapshot.screenshotLink)>>

\* spreadsheets.values.get returns each row without its empty trailing cells
RECURSIVE ValuesGetRow(_)
ValuesGetRow(cells) ==
    IF cells = <<>> THEN <<>>
    ELSE IF cells[Len(cells)] = "" THEN ValuesGetRow(SubSeq(cells, 1, Len(cells) - 1))
    ELSE cells

\* "row[i] || null" and "row[i] || ''" (JavaScript indexes from 0)
CellOrNull(row, i) == IF i + 1 > Len(row) \/ row[i + 1] = "" THEN Null ELSE row[i + 1]

CellOrEmpty(row, i) == IF i + 1 > Len(row) THEN "" ELSE row[i + 1]

\* "row[i] ? parseFloat(row[i]) : null"
ParseFloatCell(row, i) ==
    IF CellOrEmpty(row, i) = "" THEN NoNumber
    ELSE CHOOSE n \in CellNumbers : ToString(n) = row[i + 1]

\* part_007:311-327
rowToSnapshot(row) ==
    [date |-> CellOrEmpty(row, 0), checkedAt |-> CellOrEmpty(row, 1),
     link |-> CellOrNull(row, 2), name |-> CellOrNull(row, 3),
     address |-> CellOrNull(row, 4), webpage |-> CellOrNull(row, 5),
     phone |-> CellOrNull(row, 6),
     openClosedStatus |-> IF CellOrEmpty(row, 7) = "" THEN "UNKNOWN" ELSE row[8],
     reviewCount |-> ParseFloatCell(row, 8), starRating |-> ParseFloatCell(row, 9),
     activity |-> CellOrEmpty(row, 10), errorCode |-> CellOrNull(row, 11),
     screenshotLink |-> CellOrNull(row, 12)]

\* getLastSnapshot's null
NoSnapshot == [date |-> Null]

\* part_007:295-306: the loop from the last row of the sheet to the first
RECURSIVE getLastSnapshot(_)
getLastSnapshot(rows) ==
    IF rows = <<>> THEN NoSnapshot
    ELSE LET row == ValuesGetRow(rows[Len(rows)]) IN
         IF Len(row) >= 13 /\ CellOrEmpty(row, 11) = "" /\ CellOrEmpty(row, 3) # ""
         THEN rowToSnapshot(row)
         ELSE getLastSnapshot(SubSeq(rows, 1, Len(rows) - 1))

InitLedger ==
    /\ lockFile = NoLock
    /\ now = 0
    /\ alive = Pids
    /\ pc = [c \in Callers |-> "idle"]
    /\ err = [c \in Callers |-> ""]
    /\ businesses = <<>>
    /\ lastID = 0
    /\ sheets = <<>>
    /\ call = NoCall
    /\ callNo = 0
    /\ gated = {}
    /\ probe = [stage |-> "sheet", rows |-> <<>>, appended |-> <<>>]

\* appendSnapshot(spreadsheetId, snapshot)
LedgerAppend(snapshot) ==
    /\ probe.stage \in {"sheet", "read"}
    /\ Len(probe.rows) < MaxRows
    /\ probe' = [stage |-> "sheet", rows |-> Append(probe.rows, RowOf(snapshot)),
                 appended |-> Append(probe.appended, snapshot)]
    /\ UNCHANGED <<lockVars, checkVars, now>>

\* getLastSnapshot(spreadsheetId)
LedgerRead ==
    /\ probe.stage = "sheet"
    /\ probe' = [stage |-> "read", rows |-> probe.rows, appended |-> probe.appended,
                 baseline |-> getLastSnapshot(probe.rows)]
    /\ UNCHANGED <<lockVars, checkVars, now>>

NextLedger ==
    \/ \E snapshot \in Snapshots : LedgerAppend(snapshot)
    \/ LedgerRead

SpecLedger == InitLedger /\ [][NextLedger]_vars

\* a snapshot has no error code and a name
ValidObservation(snapshot) == snapshot.errorCode = Null /\ snapshot.name # Null

\* the places of the appended snapshots that have no error code and a name
ValidPlaces == {i \in DOMAIN probe.appended : ValidObservation(probe.appended[i])}

\* the greatest element of a non-empty set of numbers
Last(S) == CHOOSE i \in S : \A j \in S : j <= i

\* C14: the baseline getLastSnapshot returns is the most recent row whose error
\* code is empty and whose name is not, whatever its other cells hold, and none
\* when there is no such row.
C14_BaselineIsLastValid ==
    probe.stage = "read" =>
        IF ValidPlaces = {} THEN probe.baseline = NoSnapshot
        ELSE /\ probe.baseline # NoSnapshot
             /\ probe.baseline = rowToSnapshot(probe.rows[Last(ValidPlaces)])

\* C15: an observation with no error code and a name that was appended last is
\* read back by getLastSnapshot equal in all fields.
C15_RoundTrip ==
    (/\ probe.stage = "read"
     /\ probe.appended # <<>>
     /\ ValidObservation(probe.appended[Len(probe.appended)]))
    => probe.baseline = probe.appended[Len(probe.appended)]

(***************************************************************************)
(* SpecChanges: detectChanges (src/services/change-detection.ts)           *)
(***************************************************************************)
\* in how many fields the current observation differs from the first one drawn
MaxEdits == 2

\* JavaScript's truthiness of a string-or-null field
Truthy(x) == x # Null /\ x # ""

\* a number as the template literal prints it (a star rating is kept in tenths)
RatingText(x) ==
    IF x % 10 = 0 THEN ToString(x \div 10)
    ELSE ToString(x \div 10) \o "." \o ToString(x % 10)

\* changes.join('; ')
RECURSIVE Join(_)
Join(changes) ==
    IF changes = <<>> THEN ""
    ELSE IF Len(changes) = 1 THEN changes[1]
    ELSE changes[1] \o "; " \o Join(Tail(changes))

\* change-detection.ts:11-19
LinkChange(old, new) ==
    IF old = new THEN <<>>
    ELSE IF ~Truthy(old) /\ Truthy(new) THEN <<"Link: added">>
    ELSE IF Truthy(old) /\ ~Truthy(new) THEN <<"Link: removed">>
    ELSE <<"Link: changed">>

\* change-detection.ts:22-24
NameChange(old, new) ==
    IF old # new /\ Truthy(old) /\ Truthy(new) THEN <<"Name: changed">> ELSE <<>>

\* a contact field that reports additions the way the link does
ContactChangeWithAdded(label, old, new) ==
    IF old = new THEN <<>>
    ELSE IF ~Truthy(old) /\ Truthy(new) THEN <<label \o ": added">>
    ELSE IF Truthy(old) /\ ~Truthy(new) THEN <<label \o ": removed">>
    ELSE <<label \o ": changed">>

\* change-detection.ts:27-33, 36-42, 45-51: address, webpage and phone
ContactChange(label, old, new) ==
    IF old = new THEN <<>>
    ELSE IF Truthy(old) /\ ~Truthy(new) THEN <<label \o ": removed">>
    ELSE IF Truthy(old) /\ Truthy(new) THEN <<label \o ": changed">>
    ELSE <<>>

\* a status line that is pushed without the comparison
StatusChangeAlways(old, new) == <<"OpenClosedStatus: " \o old \o " -> " \o new>>

\* change-detection.ts:54-56 (the arrow of the source is written "->" here)
StatusChange(old, new) ==
    IF old # new THEN <<"OpenClosedStatus: " \o old \o " -> " \o new>> ELSE <<>>

\* change-detection.ts:59-65
ReviewCountChange(old, new) ==
    IF old # NoNumber /\ new # NoNumber /\ old # new
    THEN <<"ReviewCount: " \o (IF new - old > 0 THEN "+" ELSE "") \o ToString(new - old)
           \o " (" \o ToString(old) \o " -> " \o ToString(new) \o ")">>
    ELSE <<>>

\* change-detection.ts:68-73
StarRatingChange(old, new) ==
    IF old # NoNumber /\ new # NoNumber /\ old # new
    THEN <<"StarRating: " \o RatingText(old) \o " -> " \o RatingText(new)
           \o " (" \o (IF new > old THEN "increased" ELSE "decreased") \o ")">>
    ELSE <<>>

\* change-detection.ts:3-73: the changes array before it is joined
Changes(baseline, current) ==
    IF baseline = NoSnapshot THEN <<>>
    ELSE LinkChange(baseline.link, current.link)
         \o NameChange(baseline.name, current.name)
         \o ContactChange("Address", baseline.address, current.address)
         \o ContactChange("Webpage", baseline.webpage, current.webpage)
         \o ContactChange("Phone", baseline.phone, current.phone)
         \o StatusChange(baseline.openClosedStatus, current.openClosedStatus)
         \o ReviewCountChange(baseline.reviewCount, current.reviewCount)
         \o StarRatingChange(baseline.starRating, current.starRating)

\* change-detection.ts:3-76
detectChanges(baseline, current) == Join(Changes(baseline, current))

\* the fields detectChanges compares
ComparedFields ==
    {"link", "name", "address", "webpage", "phone", "openClosedStatus",
     "reviewCount", "starRating"}

\* the values a compared field takes
FieldValues(f) ==
    CASE f = "link" -> {Null, "https://www.google.com/maps/place/Cafe",
                        "https://www.google.com/maps/place/Pub"}
      [] f = "name" -> {Null, "Cafe", "Pub"}
      [] f = "address" -> {Null, "", "1 Main St", "2 High St"}
      [] f = "webpage" -> {Null, "https://cafe.example", "https://pub.example"}
      [] f = "phone" -> {Null, "+353 1 555 0100", "+353 1 555 0199"}
      [] f = "openClosedStatus" -> {"OPEN", "TEMPORARILY_CLOSED", "UNKNOWN"}
      [] f = "reviewCount" -> {NoNumber, 100, 95}
      [] f = "starRating" -> {NoNumber, 42, 50}

\* the observations a check starts from
Observed ==
    {[link |-> "https://www.google.com/maps/place/Cafe", name |-> n, address |-> a,
      webpage |-> w, phone |-> ph, openClosedStatus |-> "OPEN",
      reviewCount |-> rc, starRating |-> IF rc = NoNumber THEN NoNumber ELSE 42] :
        n \in {Null, "Cafe"}, a \in {Null, "1 Main St"},
        w \in {Null, "https://cafe.example"}, ph \in {Null, "+353 1 555 0100"},
        rc \in {NoNumber, 100}}

InitChanges ==
    /\ lockFile = NoLock
    /\ now = 0
    /\ alive = Pids
    /\ pc = [c \in Callers |-> "idle"]
    /\ err = [c \in Callers |-> ""]
    /\ businesses = <<>>
    /\ lastID = 0
    /\ sheets = <<>>
    /\ call = NoCall
    /\ callNo = 0
    /\ gated = {}
    /\ \E o \in Observed, hasBaseline \in BOOLEAN :
         probe = [stage |-> "observed", current |-> o, edits |-> 0,
                  baseline |-> IF hasBaseline THEN o ELSE NoSnapshot]

\* the listing or the ledger row differs in one more field
ChangesEdit(side, f, v) ==
    /\ probe.stage = "observed"
    /\ probe.edits < MaxEdits
    /\ side = "baseline" => probe.baseline # NoSnapshot
    /\ probe' = [probe EXCEPT ![side] = [@ EXCEPT ![f] = v], !.edits = @ + 1]
    /\ UNCHANGED <<lockVars, checkVars, now>>

\* detectChanges(baseline, current)
ChangesDetect ==
    /\ probe.stage = "observed"
    /\ probe' = [stage |-> "detected", baseline |-> probe.baseline,
                 current |-> probe.current, edits |-> probe.edits,
                 changes |-> Changes(probe.baseline, probe.current),
                 activity |-> detectChanges(probe.baseline, probe.current)]
    /\ UNCHANGED <<lockVars, checkVars, now>>

NextChanges ==
    \/ \E side \in {"baseline", "current"}, f \in ComparedFields :
         \E v \in FieldValues(f) : ChangesEdit(side, f, v)
    \/ ChangesDetect

SpecChanges == InitChanges /\ [][NextChanges]_vars

\* baseline and current agree in every compared field
SameCompared(baseline, current) == \A f \in ComparedFields : baseline[f] = current[f]

\* C18: detectChanges returns the empty activity string when the baseline is none
\* and when baseline and current are equal in every compared field.
C18_EmptyWhenNoneOrEqual ==
    probe.stage = "detected" =>
        /\ probe.baseline = NoSnapshot => probe.activity = ""
        /\ (probe.baseline # NoSnapshot /\ SameCompared(probe.baseline, probe.current))
               => probe.activity = ""

C18_Witness ==
    /\ probe.stage = "detected"
    /\ probe.baseline # NoSnapshot
    /\ probe.edits = 2
    /\ probe.baseline.name = "Pub"
    /\ SameCompared(probe.baseline, probe.current)
    /\ probe.activity = ""

\* the activity lists this message
Reports(message) == \E i \in DOMAIN probe.changes : probe.changes[i] = message

\* the contact fields and the labels detectChanges gives them
ContactLabel == [address |-> "Address", webpage |-> "Webpage", phone |-> "Phone"]

\* C19: for address, webpage and phone, 'removed' is reported when the baseline
\* has a value and the current observation has none, 'changed' when both have
\* values that differ, nothing when the baseline has no value, and never 'added'.
C19_ContactFields ==
    (probe.stage = "detected" /\ probe.baseline # NoSnapshot) =>
        \A f \in DOMAIN ContactLabel :
            LET old == probe.baseline[f]
                new == probe.current[f]
                label == ContactLabel[f] IN
            /\ probe.activity = Join(probe.changes)
            /\ Reports(label \o ": removed") <=> (Truthy(old) /\ ~Truthy(new))
            /\ Reports(label \o ": changed") <=> (Truthy(old) /\ Truthy(new) /\ old # new)
            /\ ~Reports(label \o ": added")
            /\ ~Truthy(old) =>
                   ~(Reports(label \o ": removed") \/ Reports(label \o ": changed"))

C19_Witness ==
    /\ probe.stage = "detected"
    /\ probe.baseline # NoSnapshot
    /\ probe.baseline.address = Null /\ probe.current.address = "1 Main St"
    /\ probe.baseline.phone = "+353 1 555 0100" /\ probe.current.phone = Null
    /\ probe.activity = "Phone: removed"

(***************************************************************************)
(* SpecExtract: extractBusinessData (src/services/playwright.ts) and the   *)
(* row createSnapshot and appendSnapshot make of its result                *)
(***************************************************************************)
\* strategies that run under Promise.race with a timeout (webpage and status race alike)
Strategies == {"address", "phone", "reviewCount"}

\* playwright.ts:230-251: a strategy that loses the race resolves to null
Resolved(page, timedOut) ==
    [page EXCEPT !.address = IF "address" \in timedOut THEN Null ELSE @,
                 !.phone = IF "phone" \in timedOut THEN Null ELSE @,
                 !.reviewCount = IF "reviewCount" \in timedOut THEN NoNumber ELSE @]

\* what the browser may find: page.goto rejects the empty URL
ExtractInputs ==
    {[url |-> u, contextFails |-> cf, timedOut |-> t,
      page |-> [MkPage(nf, i = "consent", i = "captcha", i = "before", n, a, rc, sr)
                    EXCEPT !.webpage = w, !.phone = ph]] :
        u \in {"", "https://www.google.com/maps/place/Cafe"}, cf \in BOOLEAN,
        t \in SUBSET Strategies, nf \in BOOLEAN,
        i \in {"none", "consent", "captcha", "before"}, n \in {Null, "Cafe"},
        a \in {Null, "1 Main St"}, w \in {Null, "https://cafe.example"},
        ph \in {Null, "+353 1 555 0100"}, rc \in {NoNumber, 100}, sr \in {NoNumber, 42}}

\* playwright.ts:111-262: the field-extraction strategies one call invokes: none
\* when navigation failed or an interstitial was detected, extractStarRating only
\* when the review count resolved
StrategiesInvoked(page) ==
    IF page.navFails \/ detectInterstitial(page) # Null THEN {}
    ELSE {"name", "address", "webpage", "phone", "openClosedStatus", "reviewCount"}
         \cup (IF page.reviewCount = NoNumber THEN {} ELSE {"starRating"})

\* session.ts:697-742
createSnapshot(extracted, baseline, today, checkedAt) ==
    [date |-> today, checkedAt |-> checkedAt, link |-> extracted.link,
     name |-> extracted.name, address |-> extracted.address,
     webpage |-> extracted.webpage, phone |-> extracted.phone,
     openClosedStatus |-> extracted.openClosedStatus,
     reviewCount |-> extracted.reviewCount, starRating |-> extracted.starRating,
     activity |-> IF extracted.errorCode = "EXTRACTION_FAILED" THEN "EXTRACTION_FAILED"
                  ELSE IF baseline # NoSnapshot THEN detectChanges(baseline, extracted)
                  ELSE "",
     errorCode |-> extracted.errorCode, screenshotLink |-> Null]

InitExtract ==
    /\ lockFile = NoLock
    /\ now = 0
    /\ alive = Pids
    /\ pc = [c \in Callers |-> "idle"]
    /\ err = [c \in Callers |-> ""]
    /\ businesses = <<>>
    /\ lastID = 0
    /\ sheets = <<>>
    /\ call = NoCall
    /\ callNo = 0
    /\ gated = {}
    /\ \E i \in ExtractInputs :
         /\ i.url = "" => i.page.navFails
         /\ probe = [stage |-> "requested", input |-> i]

\* playwright.ts:79-80: getContext() and newPage() stand before the try block
ExtractRaise ==
    /\ probe.stage = "requested"
    /\ probe.input.contextFails
    /\ probe' = [stage |-> "raised", input |-> probe.input]
    /\ UNCHANGED <<lockVars, checkVars, now>>

\* playwright.ts:82-306
ExtractReturn ==
    /\ probe.stage = "requested"
    /\ ~probe.input.contextFails
    /\ probe' = [stage |-> "returned", input |-> probe.input,
                 invoked |-> StrategiesInvoked(Resolved(probe.input.page, probe.input.timedOut)),
                 extracted |-> [link |-> probe.input.url]
                     @@ extractBusinessData(Resolved(probe.input.page, probe.input.timedOut))]
    /\ UNCHANGED <<lockVars, checkVars, now>>

\* session.ts:479-480 and 596, 667: createSnapshot, then appendSnapshot's row
ExtractAppend ==
    /\ probe.stage = "returned"
    /\ probe' = [stage |-> "appended", input |-> probe.input,
                 invoked |-> probe.invoked, extracted |-> probe.extracted,
                 row |-> RowOf(createSnapshot(probe.extracted, NoSnapshot, "2026-11-01",
                                              "2026-11-01T09:00:00.000Z"))]
    /\ UNCHANGED <<lockVars, checkVars, now>>

NextExtract ==
    \/ ExtractRaise
    \/ ExtractReturn
    \/ ExtractAppend

SpecExtract == InitExtract /\ [][NextExtract]_vars

\* C16: in every observation extractBusinessData returns, and in every row made
\* of one, the star rating is unknown whenever the review count is unknown.
C16_NoRatingWithoutCount ==
    /\ probe.stage \in {"returned", "appended"} =>
           (probe.extracted.reviewCount = NoNumber => probe.extracted.starRating = NoNumber)
    /\ probe.stage = "appended" => (probe.row[9] = "" => probe.row[10] = "")

C16_Witness ==
    /\ probe.stage = "appended"
    /\ probe.input.page.reviewCount = 100 /\ probe.input.page.starRating = 42
    /\ "reviewCount" \in probe.input.timedOut
    /\ probe.extracted.errorCode = Null
    /\ probe.row[9] = "" /\ probe.row[10] = ""

\* the extraction got past navigation and interstitial detection
PastDetection ==
    /\ probe.stage # "requested"
    /\ ~probe.input.contextFails
    /\ ~probe.input.page.navFails
    /\ detectInterstitial(probe.input.page) = Null

\* none of name, address, webpage and phone resolved while there is a link
NothingResolved(extracted) ==
    /\ Truthy(extracted.link)
    /\ extracted.name = Null /\ extracted.address = Null
    /\ extracted.webpage = Null /\ extracted.phone = Null

MaxBatch == 3

\* part_001:201: Math.min(CONCURRENCY, allBusinesses.length) workers share the
\* index; index.ts:118 is one for-loop, a single worker
WorkerCount(mode, n) == IF mode = "daily" THEN (IF n = 0 THEN 0 ELSE 1) ELSE n

\* a loop that an entity's failure ends
WorkerAfterAborting(success) == IF success THEN "loop" ELSE "done"

\* part_001:177-187 and index.ts:119-137: success and failure both return to the loop
WorkerAfter(success) == "loop"

\* how many results have this success flag
CountOf(results, success) == Cardinality({i \in DOMAIN results : results[i].success = success})

InitBatch ==
    /\ lockFile = NoLock
    /\ now = 0
    /\ alive = Pids
    /\ pc = [c \in Callers |-> "idle"]
    /\ err = [c \in Callers |-> ""]
    /\ businesses = <<>>
    /\ lastID = 0
    /\ sheets = <<>>
    /\ call = NoCall
    /\ callNo = 0
    /\ gated = {}
    /\ \E mode \in {"route", "daily"}, n \in 0..MaxBatch :
         probe = [stage |-> "requested", mode |-> mode, n |-> n]

\* withLock rejects with RUN_IN_PROGRESS, or runDailyCheck finds no authentication
BatchRefuse ==
    /\ probe.stage = "requested"
    /\ probe' = [probe EXCEPT !.stage = "refused"]
    /\ UNCHANGED <<lockVars, checkVars, now>>

\* part_001:160-204 and index.ts:112-116: the entities are read and the workers started
BatchStart ==
    /\ probe.stage = "requested"
    /\ probe' = [stage |-> "running", mode |-> probe.mode, n |-> probe.n, index |-> 0,
                 workers |-> [w \in 1..WorkerCount(probe.mode, probe.n) |->
                                  [at |-> "loop", business |-> 0]],
                 started |-> [b \in 1..probe.n |-> 0], results |-> <<>>]
    /\ UNCHANGED <<lockVars, checkVars, now>>

\* part_001:193-198: index++ and the call of runCheck, up to its first await
BatchTake(w) ==
    /\ probe.stage = "running"
    /\ probe.workers[w].at = "loop"
    /\ probe.index < probe.n
    /\ probe' = [probe EXCEPT !.index = @ + 1,
                              !.workers[w] = [at |-> "awaiting", business |-> probe.index + 1],
                              !.started[probe.index + 1] = @ + 1]
    /\ UNCHANGED <<lockVars, checkVars, now>>

\* part_001:180-186: runCheck resolves or rejects; either way a result is pushed
BatchCheckEnds(w, success) ==
    /\ probe.stage = "running"
    /\ probe.workers[w].at = "awaiting"
    /\ probe' = [probe EXCEPT !.workers[w] = [at |-> WorkerAfter(success), business |-> 0],
                              !.results = Append(@, [id |-> probe.workers[w].business,
                                                     success |-> success])]
    /\ UNCHANGED <<lockVars, checkVars, now>>

\* part_001:192: the while test fails
BatchWorkerDone(w) ==
    /\ probe.stage = "running"
    /\ probe.workers[w].at = "loop"
    /\ probe.index >= probe.n
    /\ probe' = [probe EXCEPT !.workers[w].at = "done"]
    /\ UNCHANGED <<lockVars, checkVars, now>>

\* part_001:206-230 and index.ts:147: Promise.all(workers), then the counts
BatchReport ==
    /\ probe.stage = "running"
    /\ \A w \in DOMAIN probe.workers : probe.workers[w].at = "done"
    /\ probe' = [stage |-> "reported", mode |-> probe.mode, n |-> probe.n,
                 started |-> probe.started, results |-> probe.results,
                 checked |-> CountOf(probe.results, TRUE),
                 failed |-> CountOf(probe.results, FALSE)]
    /\ UNCHANGED <<lockVars, checkVars, now>>

NextBatch ==
    \/ BatchRefuse
    \/ BatchStart
    \/ \E w \in 1..MaxBatch : w <= WorkerCount(probe.mode, probe.n) /\ BatchTake(w)
    \/ \E w \in 1..MaxBatch, success \in BOOLEAN :
         w <= WorkerCount(probe.mode, probe.n) /\ BatchCheckEnds(w, success)
    \/ \E w \in 1..MaxBatch : w <= WorkerCount(probe.mode, probe.n) /\ BatchWorkerDone(w)
    \/ BatchReport

SpecBatch == InitBatch /\ [][NextBatch]_vars

\* the results pushed for one entity
ResultsOf(b) == {i \in DOMAIN probe.results : probe.results[i].id = b}

\* C20: in a check-all run over N entities each entity's check is started exactly
\* once, every entity reaches its own outcome whatever the others' outcomes are,
\* and the reported checked count plus failed count is N.
C20_BatchIsolation ==
    /\ probe.stage = "running" => \A b \in 1..probe.n : probe.started[b] <= 1
    /\ probe.stage = "reported" =>
           /\ \A b \in 1..probe.n : probe.started[b] = 1 /\ Cardinality(ResultsOf(b)) = 1
           /\ probe.checked + probe.failed = probe.n

C20_Witness ==
    /\ probe.stage = "reported"
    /\ probe.n = 3
    /\ probe.results[1].success = FALSE
    /\ probe.results[3].success = TRUE
    /\ probe.checked = 2 /\ probe.failed = 1

(***************************************************************************)
(* acquireLock and releaseLock (src/utils/lock.ts) under SpecLock          *)
(***************************************************************************)
\* where a caller stands inside acquireLock
AcquireStates == {"exists", "read", "unlink36", "unlink45", "unlink49", "write"}

\* the cases in which acquireLock is to return a lock, on the record it finds
MayAcquire(info, override, t) ==
    \/ info = NoLock
    \/ ~ProcessExists(info.pid)
    \/ ProcessExists(info.pid) /\ IsStale(info, t) /\ override

\* one step of caller c inside acquireLock
AcquireStepOk(c) ==
    (pc[c] \in AcquireStates /\ pc'[c] # pc[c] /\ pc'[c] # "crashed") =>
        \* the record found decides between a lock and none
        /\ pc[c] = "exists" /\ lockFile = NoLock => pc'[c] = "write"
        /\ pc[c] = "read" =>
               IF MayAcquire(lockFile, OverrideStale(c), now)
               THEN pc'[c] \in AcquireStates
               ELSE pc'[c] = "failed"
        \* a lock is returned with the record naming the caller's process
        /\ pc'[c] = "work" => lockFile' # NoLock /\ lockFile'.pid = PidOf(c)
        \* otherwise none is returned and the record is left as it was
        /\ pc'[c] = "failed" =>
               /\ err'[c] = "RUN_IN_PROGRESS"
               /\ lockFile' = lockFile
               /\ ~MayAcquire(lockFile, OverrideStale(c), now)
        /\ pc'[c] \in AcquireStates \cup {"work", "failed"}

\* C21: acquireLock returns a lock, the record afterwards naming the caller's
\* process id, exactly when no record exists, or the recorded owner no longer
\* exists, or the owner exists, the record is older than one hour and override
\* is permitted; in every other case it returns none and leaves the record
\* unchanged.
C21_AcquireDecides == [][\A c \in Callers : AcquireStepOk(c)]_vars

\* C22: releaseLock deletes the lock record only if the record's owner process
\* id equals the caller's; a release by a holder whose lock another process has
\* overridden leaves the new holder's record in place.
C22_ReleaseOnlyOwn ==
    [][\A c \in Callers :
          (pc[c] \in {"rel_exists", "rel_read", "rel_unlink"}
              /\ pc'[c] # pc[c] /\ pc'[c] # "crashed") =>
              \/ lockFile' = lockFile
              \/ lockFile # NoLock /\ lockFile.pid = PidOf(c) /\ lockFile' = NoLock]_vars

(***************************************************************************)
(* Artifacts, screenshots and dates of a check, under Spec                 *)
(***************************************************************************)
\* the check read a document id from the entity's row and found that document
\* gone (session.ts:583-588)
FoundDocumentMissing ==
    /\ call.op = "check"
    /\ call.was.spreadsheetId # NoSheet
    /\ call.spreadsheetId = NoSheet

\* C23: a check that finds the entity's stored document gone recreates it within
\* that check and appends the observation to it: the check ends with a row
\* written and the entity pointing at an existing document.
C23_RecreatesMissingDocument ==
    (CheckEnded /\ FoundDocumentMissing /\ call.id \in DOMAIN businesses) =>
        /\ call.outcome = "ok"
        /\ Cardinality(RowsOf(call.no)) = 1
        /\ businesses[call.id].spreadsheetId \in DOMAIN sheets

\* what a check raises before it reaches the cloud collaborator
BeforeCloud == {"NOT_LOGGED_IN", "INVALID_URL", BrowserError}

\* what a check raises when the cloud collaborator is not working
CloudFailed == {"SHEETS_AUTH_REQUIRED"} \cup WriteFailed

\* C24: when provisioning fails or the cloud collaborator is not authenticated
\* during onboarding, the entity is persisted without document and folder ids;
\* a check of an entity without a document id either fails before or at the
\* cloud collaborator, or provisions the artifacts, stores their ids on the
\* entity and appends its observation to that document.
C24_BackfilledOnNextCheck ==
    /\ [][(At("create", "provision") /\ call'.pc = "done") =>
              (call'.outcome = "ok" /\ businesses' = businesses)]_vars
    /\ []((call.op = "create" /\ call.pc = "done" /\ call.outcome = "ok"
              /\ call.spreadsheetId = NoSheet /\ call.id \in DOMAIN businesses) =>
             /\ businesses[call.id].spreadsheetId = NoSheet
             /\ businesses[call.id].folderId = Null)
    /\ []((CheckEnded /\ call.outcome # "skipped" /\ call.id \in DOMAIN businesses
              /\ call.was.spreadsheetId = NoSheet) =>
             IF call.outcome = "ok"
             THEN /\ businesses[call.id].spreadsheetId \in DOMAIN sheets
                  /\ businesses[call.id].spreadsheetId = call.spreadsheetId
                  /\ businesses[call.id].folderId # Null
                  /\ \E i \in DOMAIN sheets[call.spreadsheetId].rows :
                         RowsOf(call.no) = {<<call.spreadsheetId, i>>}
             ELSE /\ call.raised \in BeforeCloud \cup CloudFailed
                  /\ RowsOf(call.no) = {})

\* the first check after an onboarding that stored no ids has provisioned the
\* one document there is and appended the first row to it
C24_Witness ==
    /\ CheckEnded
    /\ call.outcome = "ok"
    /\ callNo = 2
    /\ call.was.spreadsheetId = NoSheet
    /\ Len(sheets) = 1
    /\ call.id \in DOMAIN businesses
    /\ businesses[call.id].spreadsheetId = 1
    /\ Len(sheets[1].rows) = 1
    /\ sheets[1].rows[1].call = call.no

\* session.ts:602: the test that guards the screenshot
ScreenshotDue == call.folderId # Null /\ call.extracted.errorCode = Null

\* the check attempted a screenshot and capture or upload failed
\* (session.ts:598-658: screenshotLink stays null)
ScreenshotFailed ==
    /\ call.op = "check"
    /\ call.pc \in {"append", "record", "done"}
    /\ call.snapDate # NoNumber
    /\ ScreenshotDue
    /\ call.screenshotLink = Null

\* C26 as stated: after a screenshot failure the observation row is still
\* appended, with no screenshot reference, and the check recorded.
C26_FailureStillAppends ==
    (ScreenshotFailed /\ call.pc = "done") =>
        /\ call.outcome = "ok"
        /\ \E r \in AllRows : r.call = call.no /\ r.screenshotLink = Null

\* C26, amended: a screenshot is attempted only when extraction produced no
\* error code and the entity has a folder; a failure of capture or upload is
\* never what the check raises. After it the check goes on to the append and
\* either appends the row with no screenshot reference and records the check,
\* or the append itself fails (no document id, or the write is refused), raises
\* SHEETS_WRITE_FAILED, writes no row and records nothing.
C26_ScreenshotNeverBlocks ==
    call.op = "check" =>
        /\ call.pc = "screenshot" => ScreenshotDue
        /\ call.screenshotLink # Null => ScreenshotDue
        /\ (ScreenshotFailed /\ call.pc = "done") =>
            \/ /\ call.outcome = "ok"
               /\ Cardinality(RowsOf(call.no)) = 1
               /\ \A p \in RowsOf(call.no) : sheets[p[1]].rows[p[2]].screenshotLink = Null
               /\ call.id \in DOMAIN businesses =>
                      businesses[call.id].lastCheckedDate = call.today
            \/ /\ call.outcome = "raised"
               /\ call.raised \in WriteFailed
               /\ RowsOf(call.no) = {}
               /\ CheckedUnchanged

\* a check whose screenshot failed has appended its row without a reference
C26_Witness ==
    /\ ScreenshotFailed
    /\ call.pc = "done"
    /\ call.outcome = "ok"
    /\ call.extracted.name = "Cafe"
    /\ \E r \in AllRows : r.call = call.no /\ r.screenshotLink = Null
    /\ call.id \in DOMAIN businesses
    /\ businesses[call.id].lastCheckedDate = call.today

(***************************************************************************)
(* The consent screen, under SpecExtract                                   *)
(***************************************************************************)
\* C25: when the interstitial detector finds a consent marker,
\* extractBusinessData returns an observation with error code CONSENT_REQUIRED
\* and all fields unknown, and no field-extraction strategy is invoked in that
\* call.
C25_ConsentStopsExtraction ==
    (/\ probe.stage \in {"returned", "appended"}
     /\ ~probe.input.page.navFails
     /\ probe.input.page.consentVisible)
    => /\ probe.extracted = [link |-> probe.input.url] @@ FailedExtraction("CONSENT_REQUIRED")
       /\ probe.invoked = {}

\* a page that shows the consent screen over a complete listing
C25_Witness ==
    /\ probe.stage = "returned"
    /\ ~probe.input.page.navFails
    /\ probe.input.page.consentVisible
    /\ probe.input.page.name = "Cafe" /\ probe.input.page.reviewCount = 100
    /\ probe.extracted.errorCode = "CONSENT_REQUIRED"
    /\ probe.extracted.name = Null
    /\ probe.invoked = {}

\* ---------------------------------------------------------------------------
\* The two civil dates of one check, under Spec.
\* runCheck reads the Dublin date once when it starts (session.ts line 506) and
\* stores that value as lastCheckedDate (lines 688-694); createSnapshot reads
\* the Dublin date again when the row is built (line 702).
\* ---------------------------------------------------------------------------

\* C29: for every check that completes successfully, the lastCheckedDate stored
\* on the entity equals the date of the observation row appended by that same
\* check, also when midnight in Dublin falls between its start and its end.
C29_RowDateIsCheckedDate ==
    (CheckEnded /\ call.outcome = "ok" /\ call.id \in DOMAIN businesses) =>
        \A p \in RowsOf(call.no) :
            sheets[p[1]].rows[p[2]].date = businesses[call.id].lastCheckedDate

\* ---------------------------------------------------------------------------
\* SpecSession: one SessionService (src/services/session.ts lines 1-345) at the
\* granularity of its awaits.  Two HTTP requests may be inside openLoginPage
\* and one inside checkLoggedIn (GET /api/session/status) at the same time;
\* the human in front of the visible window and the age of storage.json are
\* the environment.
\* ---------------------------------------------------------------------------

\* constants.ts:9  LOGIN_MAX_WAIT: 600000
LOGIN_MAX_WAIT == 600000

\* constants.ts:34  REVIEW_CHECK_INTERVAL: 5000 (the polling interval of openLoginPage)
REVIEW_CHECK_INTERVAL == 5000

\* how many openLoginPage calls may pass the guard
MaxSessions == 3

\* how many rounds of the polling loop are followed one by one; the rounds after
\* them, up to the ceiling, pass in one step when nothing happens in between
MaxPolls == 2

\* the requests that call openLoginPage (POST /api/session/open-login)
LoginCallers == {"a", "b"}

\* the request that calls checkLoggedIn alone (GET /api/session/status)
StatusCaller == "s"

SessionActors == LoginCallers \cup {StatusCaller}

\* what a browsing context or storage.json holds: no Google session cookies, or
\* the cookies of a signed-in account
Identities == {"anonymous", "account"}

\* storage-state.ts:26-38 loadStorageState, given to newContext (session.ts:31-36,
\* 56-62): an absent file gives a context without cookies
IdentityOf(storage) == IF storage = "none" THEN "anonymous" ELSE storage

\* session.ts:72  const context = this.loginContext || this.headlessContext
ContextToSave(p) == IF p.loginContext # Null THEN p.loginContext ELSE p.headlessContext

\* session.ts:70-76 saveStorageState; storage-state.ts:40-56 writes the file, whose
\* age is then below STORAGE_RELOAD_AGE
saveStorageState(p) ==
    IF ContextToSave(p) # Null
    THEN [p EXCEPT !.storage = ContextToSave(p), !.fresh = TRUE]
    ELSE p

\* session.ts:78-90 reloadLoginContext
reloadLoginContext(p) == [p EXCEPT !.headlessContext = Null]

\* session.ts:17-40 getHeadlessContext
getHeadlessContext(p) ==
    IF p.headlessContext # Null THEN p
    ELSE [p EXCEPT !.headlessContext = IdentityOf(p.storage)]

\* session.ts:43-68 getLoginContext
getLoginContext(p) ==
    IF p.loginContext # Null THEN p
    ELSE [p EXCEPT !.loginContext = IdentityOf(p.storage)]

\* a request that is not inside the service
IdleCall == [pc |-> "idle", ctx |-> Null, follows |-> FALSE, failed |-> FALSE,
             result |-> Null, elapsed |-> 0, end |-> Null]

\* no positive detection has re-saved yet
NoResave == [detected |-> Null, persisted |-> Null]

\* the flag is left as it is when a call exits
ExitKeepsFlag(p, c, end) == [p EXCEPT !.calls[c] = [IdleCall EXCEPT !.end = end]]

\* openLoginPage returns or throws: session.ts:201, 235, 312-313, 316
Exit(p, c, end) ==
    [p EXCEPT !.loginInProgress = FALSE, !.calls[c] = [IdleCall EXCEPT !.end = end]]

\* every step but the start of a checkLoggedIn ends the "immediately after"
Later(p) == [p EXCEPT !.just = FALSE]

InitSession ==
    /\ lockFile = NoLock
    /\ now = 0
    /\ alive = Pids
    /\ pc = [c \in Callers |-> "idle"]
    /\ err = [c \in Callers |-> ""]
    /\ businesses = <<>>
    /\ lastID = 0
    /\ sheets = <<>>
    /\ call = NoCall
    /\ callNo = 0
    /\ gated = {}
    /\ \E storage \in {"none"} \cup Identities :
         probe = [stage |-> "session", storage |-> storage, fresh |-> FALSE,
                  headlessContext |-> Null, loginContext |-> Null,
                  loginInProgress |-> FALSE, windows |-> 0, started |-> 0,
                  just |-> FALSE, resave |-> NoResave,
                  calls |-> [x \in SessionActors |-> IdleCall]]

InSession == probe.stage = "session"

\* session.ts:186-195: the guard of openLoginPage and the setting of the flag,
\* with no await between them
Enter(c) ==
    /\ InSession
    /\ probe.calls[c].pc = "idle"
    /\ IF probe.loginInProgress
       THEN probe' = Later([probe EXCEPT !.calls[c] = [IdleCall EXCEPT !.end = "refused"]])
       ELSE /\ probe.started < MaxSessions
            /\ probe' = [probe EXCEPT !.loginInProgress = TRUE,
                                      !.started = @ + 1,
                                      !.calls[c] = [IdleCall EXCEPT !.pc = "check",
                                                                    !.follows = probe.just],
                                      !.just = FALSE]
    /\ UNCHANGED <<lockVars, checkVars, now>>

\* GET /api/session/status (api/routes/session.ts) calls checkLoggedIn
StatusStart ==
    /\ InSession
    /\ probe.calls[StatusCaller].pc = "idle"
    /\ probe' = [probe EXCEPT !.calls[StatusCaller] = [IdleCall EXCEPT !.pc = "check",
                                                                       !.follows = probe.just],
                              !.just = FALSE]
    /\ UNCHANGED <<lockVars, checkVars, now>>

\* session.ts:92-100: a young storage.json makes checkLoggedIn drop the invisible
\* context, and getHeadlessContext builds one from the file when there is none;
\* getHeadlessContext is outside the try and may throw
CheckContext(x) ==
    /\ InSession
    /\ probe.calls[x].pc = "check"
    /\ LET p == getHeadlessContext(IF probe.fresh THEN reloadLoginContext(probe) ELSE probe) IN
       \/ probe' = Later([p EXCEPT !.calls[x].pc = "detect",
                                   !.calls[x].ctx = p.headlessContext])
       \/ /\ x \in LoginCallers
          /\ probe' = Later(Exit(probe, x, "raised"))
       \/ /\ x = StatusCaller
          /\ probe' = Later([probe EXCEPT !.calls[x] =
                                [IdleCall EXCEPT !.end = "raised",
                                                 !.follows = probe.calls[x].follows]])
    /\ UNCHANGED <<lockVars, checkVars, now>>

\* what checkLoggedIn returns to the request that called it alone
StatusReturns(p, result, failed) ==
    [p EXCEPT !.calls[StatusCaller] =
        [IdleCall EXCEPT !.result = result, !.failed = failed, !.end = "returned",
                         !.follows = p.calls[StatusCaller].follows,
                         !.ctx = p.calls[StatusCaller].ctx]]

\* session.ts:118-183: the signals are read on the page of the context obtained
\* above; a positive detection saves again (line 163) and returns true; an
\* exception (navigation, or the save itself) is caught and gives false
CheckDetect(x, throws) ==
    /\ InSession
    /\ probe.calls[x].pc = "detect"
    /\ LET isLoggedIn == ~throws /\ probe.calls[x].ctx = "account"
           saved == IF isLoggedIn
                    THEN [saveStorageState(probe) EXCEPT
                            !.just = TRUE,
                            !.resave = [detected |-> probe.calls[x].ctx,
                                        persisted |-> saveStorageState(probe).storage]]
                    ELSE Later(probe) IN
       IF x = StatusCaller
       THEN probe' = StatusReturns(saved, isLoggedIn, throws)
       ELSE IF isLoggedIn
            THEN probe' = Exit(saved, x, "already_authenticated")
            ELSE probe' = [saved EXCEPT !.calls[x].pc = "open"]
    /\ UNCHANGED <<lockVars, checkVars, now>>

\* session.ts:205-206: getLoginContext and newPage, outside the inner try: a
\* failure reaches the outer catch (lines 315-318)
OpenPage(c, throws) ==
    /\ InSession
    /\ probe.calls[c].pc = "open"
    /\ probe' = IF throws THEN Later(Exit(probe, c, "raised"))
                ELSE Later([getLoginContext(probe) EXCEPT !.calls[c].pc = "navigate"])
    /\ UNCHANGED <<lockVars, checkVars, now>>

\* session.ts:208-248: navigation and the check on the visible page.  Signed in
\* already: save, clear the flag, then await page.close() (lines 233-237).
\* Otherwise the sign-in button is clicked and polling starts.  An exception
\* goes to the inner catch (lines 307-311), which saves and closes the page.
Navigate(c, throws) ==
    /\ InSession
    /\ probe.calls[c].pc = "navigate"
    /\ probe' =
         IF throws THEN Later(Exit(saveStorageState(probe), c, "raised"))
         ELSE IF probe.loginContext = "account"
         THEN Later([saveStorageState(probe) EXCEPT !.loginInProgress = FALSE,
                                                    !.calls[c].pc = "closing"])
         ELSE Later([probe EXCEPT !.calls[c].pc = "poll", !.calls[c].elapsed = 0,
                                  !.windows = @ + 1])
    /\ UNCHANGED <<lockVars, checkVars, now>>

\* session.ts:236-237 and 312-313: page.close() resolves, the call returns and the
\* finally block clears the flag
ClosePage(c) ==
    /\ InSession
    /\ probe.calls[c].pc = "closing"
    /\ probe' = Later(Exit(probe, c, "already_authenticated"))
    /\ UNCHANGED <<lockVars, checkVars, now>>

\* session.ts:258  while (!loggedIn && (Date.now() - startTime) < maxWaitTime)
PollAgain(elapsed) == elapsed < LOGIN_MAX_WAIT

\* the rounds that fit between an elapsed time and the ceiling
RoundsLeft(elapsed) ==
    (LOGIN_MAX_WAIT - elapsed + REVIEW_CHECK_INTERVAL - 1) \div REVIEW_CHECK_INTERVAL

\* session.ts:258-302: rounds of the loop: wait checkInterval, then read the
\* signals (an exception there is swallowed, line 284); a detection saves,
\* reloads the invisible context and returns.  waitForTimeout is outside the
\* inner try of the loop: when it throws the inner catch saves and closes.
\* Of several rounds taken in one step all but the last see nothing.
Poll(c, single, seen, throws) ==
    /\ InSession
    /\ probe.calls[c].pc = "poll"
    /\ PollAgain(probe.calls[c].elapsed)
    /\ single => probe.calls[c].elapsed < MaxPolls * REVIEW_CHECK_INTERVAL
    /\ LET rounds == IF single THEN 1 ELSE RoundsLeft(probe.calls[c].elapsed)
           waited == [probe EXCEPT !.calls[c].elapsed = @ + rounds * REVIEW_CHECK_INTERVAL] IN
       probe' =
         IF throws
         THEN Later(Exit([saveStorageState(waited) EXCEPT !.windows = @ - 1], c, "raised"))
         ELSE IF seen /\ probe.loginContext = "account"
         THEN Later(Exit(reloadLoginContext(saveStorageState(waited)), c, "login_detected"))
         ELSE Later(waited)
    /\ UNCHANGED <<lockVars, checkVars, now>>

\* session.ts:258 and 298-299: the ceiling is reached: a warning is logged, nothing
\* is thrown, the page stays open
TimeOut(c) ==
    /\ InSession
    /\ probe.calls[c].pc = "poll"
    /\ ~PollAgain(probe.calls[c].elapsed)
    /\ probe' = Later(Exit(probe, c, "timed_out"))
    /\ UNCHANGED <<lockVars, checkVars, now>>

\* the human signs in, or out, in a visible window that openLoginPage left open
UserSigns(identity) ==
    /\ InSession
    /\ probe.windows > 0
    /\ probe.loginContext \in Identities \ {identity}
    /\ probe' = Later([probe EXCEPT !.loginContext = identity])
    /\ UNCHANGED <<lockVars, checkVars, now>>

\* storage-state.ts:58-70: storage.json becomes older than STORAGE_RELOAD_AGE
StorageAges ==
    /\ InSession
    /\ probe.fresh
    /\ probe' = Later([probe EXCEPT !.fresh = FALSE])
    /\ UNCHANGED <<lockVars, checkVars, now>>

\* the steps of one openLoginPage call after the guard
LoginStep(c) ==
    \/ CheckContext(c)
    \/ \E throws \in BOOLEAN : CheckDetect(c, throws)
    \/ \E throws \in BOOLEAN : OpenPage(c, throws)
    \/ \E throws \in BOOLEAN : Navigate(c, throws)
    \/ ClosePage(c)
    \/ \E single \in BOOLEAN, seen \in BOOLEAN, throws \in BOOLEAN :
         Poll(c, single, seen, throws)
    \/ TimeOut(c)

NextSession ==
    \/ \E c \in LoginCallers : Enter(c)
    \/ \E c \in LoginCallers : LoginStep(c)
    \/ StatusStart
    \/ CheckContext(StatusCaller)
    \/ \E throws \in BOOLEAN : CheckDetect(StatusCaller, throws)
    \/ \E identity \in Identities : UserSigns(identity)
    \/ StorageAges

\* every await of openLoginPage resolves or rejects: navigation and the signal
\* reads carry timeouts, and the loop waits a fixed interval
SpecSession ==
    InitSession /\ [][NextSession]_vars /\ \A c \in LoginCallers : WF_vars(LoginStep(c))

\* where a call stands while its interactive session is under way: from the
\* setting of the flag (line 195) to the statement that ends the session
SessionStates == {"check", "detect", "open", "navigate", "poll"}

InProgress(c) == probe.calls[c].pc \in SessionStates

\* C27: at most one interactive login session is in progress per SessionService
\* at any time: an openLoginPage call made while another one is in progress
\* returns immediately, opens no page and leaves the in-progress flag as it is.
C27_OneLoginSession ==
    /\ [](InSession => Cardinality({c \in LoginCallers : InProgress(c)}) <= 1)
    /\ [][\A c \in LoginCallers :
            (/\ InSession
             /\ probe.calls[c].pc = "idle"
             /\ probe'.calls[c] # probe.calls[c]
             /\ \E d \in LoginCallers \ {c} : InProgress(d))
            => /\ probe'.calls[c].pc = "idle"
               /\ probe'.calls[c].end = "refused"
               /\ probe'.loginInProgress = probe.loginInProgress
               /\ probe'.loginContext = probe.loginContext
               /\ probe'.windows = probe.windows]_vars

\* how an openLoginPage call that passed the guard may end
TerminalStates == {"already_authenticated", "login_detected", "timed_out"}

\* what one exit of call c must look like
ExitOk(c) ==
    /\ probe'.loginInProgress = FALSE
    /\ probe'.calls[c].end \in TerminalStates \cup {"raised"}
    /\ probe'.calls[c].end = "already_authenticated" =>
           probe.calls[c].pc \in {"detect", "closing"}
    /\ probe'.calls[c].end = "login_detected" =>
           /\ probe.calls[c].pc = "poll"
           /\ probe.calls[c].elapsed < LOGIN_MAX_WAIT
           /\ probe.loginContext = "account"
           /\ probe'.storage = "account"
    /\ probe'.calls[c].end = "timed_out" =>
           /\ probe.calls[c].pc = "poll"
           /\ probe.calls[c].elapsed >= LOGIN_MAX_WAIT
           /\ probe'.storage = probe.storage
           /\ probe'.windows = probe.windows

\* C28: every openLoginPage call that starts a session ends: already
\* authenticated, login detected while polling (every 5 s, for at most 10 min),
\* or timed out without throwing; every exit, a raised error included, clears
\* the in-progress flag, and a call made when the flag is clear starts again
\* with the login check.
C28_LoginTerminates ==
    /\ [][\A c \in LoginCallers :
            /\ (InSession /\ probe.calls[c].pc # "idle" /\ probe'.calls[c].pc = "idle")
                   => ExitOk(c)
            /\ (/\ InSession
                /\ probe.calls[c].pc = "idle"
                /\ ~probe.loginInProgress
                /\ probe'.calls[c] # probe.calls[c])
                   => probe'.calls[c].pc = "check" /\ probe'.loginInProgress]_vars
    /\ [](InSession =>
            \A c \in LoginCallers :
                /\ probe.calls[c].elapsed % REVIEW_CHECK_INTERVAL = 0
                /\ probe.calls[c].elapsed <= LOGIN_MAX_WAIT)
    /\ \A c \in LoginCallers :
           (InSession /\ probe.calls[c].pc # "idle") ~> (probe.calls[c].pc = "idle")

C28_Witness ==
    /\ InSession
    /\ probe.calls["a"].end = "timed_out"
    /\ probe.windows = 1
    /\ probe.calls["b"].pc = "check"
    /\ probe.loginInProgress
    /\ probe.started = 2

\* C30: when checkLoggedIn detects authentication on the invisible context and
\* saves again, what it persists is the identity of that context, so that a
\* checkLoggedIn which follows immediately, and reloads the invisible context
\* from the file, returns true as well (unless that check itself fails), also
\* when a visible context is left over from a login that timed out.
C30_ResavePersistsDetected ==
    InSession =>
        /\ probe.resave.persisted = probe.resave.detected
        /\ (/\ probe.calls[StatusCaller].end = "returned"
            /\ probe.calls[StatusCaller].follows
            /\ ~probe.calls[StatusCaller].failed)
               => probe.calls[StatusCaller].result = TRUE


====
